---- MODULE Spec2Model ----
(***************************************************************************)
(* A model of invar, a command-line modpack manager.                       *)
(*                                                                         *)
(* The state is what the program keeps on disk (the pack manifest and the  *)
(* component metadata files), the call stack of the recursive dependency   *)
(* resolver add_component_from_modrinth, and the remote registry it talks  *)
(* to.  Strings whose content matters (identifiers, version strings) are   *)
(* sequences of one-character strings, so that trimming, case folding and  *)
(* formatting are computed and not assumed.                                *)
(***************************************************************************)
EXTENDS Integers, Sequences, FiniteSets, TLC

VARIABLES
    pack,      \* the manifest pack.yml: NoPack, or the Pack it holds
    files,     \* the remote components' metadata files (*.invar.yml) on disk
    stack,     \* frames of add_component_from_modrinth, innermost last
    cmd,       \* the CLI command in progress, or the last one that ended
    prev,      \* summary of the command that ended before cmd
    log,       \* what the current command did: registry calls, saves, recursions
    world,     \* the remote registry's content, and what the user may ask for
    probe,     \* a registry version under the compatibility filter, and the verdict
    conv,      \* a value or a string under conversion, and what came out
    server,    \* the backups directory, the container, and what start and stop did
    race,      \* two processes on one repository: what each read, did and wrote
    backup_dir \* the names of the backup directory's sub-directories, and the last create_new

vars == <<pack, files, stack, cmd, prev, log, world, probe, conv, server, race, backup_dir>>

----------------------------------------------------------------------------
(* Bounds of the model.                                                    *)

\* At most this many loaders are declared by a version put under the filter.
MaxLoaders == 2

\* At most this many CLI commands are run in one behaviour.
MaxCommands == 3

\* At most this many server commands are run in one behaviour.
MaxServerCommands == 5

\* The largest min_depth a pack's StartStop backup mode is given.
MaxMinDepth == 4

\* The commands each of the two overlapping processes runs.
MaxRaceCommands == 2

\* The backups create_new makes in a backup directory.
MaxCreated == 2

\* The width given to usize, in bits.
UsizeBits == 8

----------------------------------------------------------------------------
(* Characters and strings.                                                 *)

DigitChar ==
    <<"0", "1", "2", "3", "4", "5", "6", "7", "8", "9">>

\* The decimal rendering of a natural number, as Rust's Display for integers.
RECURSIVE Digits(_)
Digits(n) ==
    IF n < 10 THEN <<DigitChar[n + 1]>>
    ELSE Digits(n \div 10) \o <<DigitChar[(n % 10) + 1]>>

\* format!("{:02}", n): at least two digits, zero padded.
Pad2(n) ==
    IF n < 10 THEN <<"0">> \o Digits(n) ELSE Digits(n)

\* The least index at which pat occurs in s, or 0.
FindFirst(s, pat) ==
    LET hits == { i \in 1..(Len(s) - Len(pat) + 1) :
                    SubSeq(s, i, i + Len(pat) - 1) = pat }
    IN  IF hits = {} THEN 0
        ELSE CHOOSE i \in hits : \A j \in hits : i <= j

\* str::replacen(pat, rep, 1)
ReplaceFirst(s, pat, rep) ==
    LET i == FindFirst(s, pat)
    IN  IF i = 0 THEN s
        ELSE SubSeq(s, 1, i - 1) \o rep \o SubSeq(s, i + Len(pat), Len(s))

\* char::to_lowercase on the letters the model uses.
LowerChar(c) ==
    CASE c = "A" -> "a"
      [] c = "B" -> "b"
      [] c = "C" -> "c"
      [] c = "D" -> "d"
      [] OTHER -> c

RECURSIVE TrimStart(_)
TrimStart(s) ==
    IF s # <<>> /\ Head(s) = " " THEN TrimStart(Tail(s)) ELSE s

RECURSIVE TrimEnd(_)
TrimEnd(s) ==
    IF s # <<>> /\ s[Len(s)] = " " THEN TrimEnd(SubSeq(s, 1, Len(s) - 1)) ELSE s

\* Id::from: nutype's sanitize(trim, lowercase).
IdFrom(s) ==
    LET t == TrimEnd(TrimStart(s))
    IN  [i \in 1..Len(t) |-> LowerChar(t[i])]

----------------------------------------------------------------------------
(* Loaders, categories, Minecraft versions, instances.                     *)

Loader ==
    {"Minecraft", "Forge", "Neoforge", "Fabric", "Quilt", "Other"}

Category ==
    {"Mod", "Resourcepack", "Shader", "Datapack", "Config"}

\* semver::Version
Semver(major, minor, patch, pre) ==
    [major |-> major, minor |-> minor, patch |-> patch, pre |-> pre,
     build |-> <<>>]

\* MinecraftVersion::Semantic
Semantic(version) ==
    [kind |-> "Semantic", version |-> version]

\* MinecraftVersion::Snapshot
Snapshot(year, week, identifier) ==
    [kind |-> "Snapshot", year |-> year, week |-> week,
     identifier |-> identifier]

\* MinecraftVersion::Unknown
Unknown(str) ==
    [kind |-> "Unknown", str |-> str]

\* semver::Version's Display: major.minor.patch, then -pre when there is
\* one, then +build when there is one.
SemverToString(v) ==
    Digits(v.major) \o <<".">> \o Digits(v.minor) \o <<".">> \o Digits(v.patch)
      \o (IF v.pre = <<>> THEN <<>> ELSE <<"-">> \o v.pre)
      \o (IF v.build = <<>> THEN <<>> ELSE <<"+">> \o v.build)

\* Snapshot's Display: "{:02}w{:02}{}".
SnapshotToString(s) ==
    Pad2(s.year) \o <<"w">> \o Pad2(s.week) \o <<s.identifier>>

\* MinecraftVersion's Display: a semantic version with patch 0 drops one ".0".
MinecraftVersionToString(mv) ==
    CASE mv.kind = "Snapshot" -> SnapshotToString(mv)
      [] mv.kind = "Unknown" -> mv.str
      [] mv.kind = "Semantic" ->
            IF mv.version.patch = 0
            THEN ReplaceFirst(SemverToString(mv.version), <<".", "0">>, <<>>)
            ELSE SemverToString(mv.version)

\* The digit a character stands for; 10 for a character that is no digit.
DigitValue(c) ==
    IF \E d \in 1..10 : DigitChar[d] = c
    THEN (CHOOSE d \in 1..10 : DigitChar[d] = c) - 1
    ELSE 10

IsDigits(s) ==
    \A i \in 1..Len(s) : DigitValue(s[i]) < 10

\* The number a string of digits denotes.
RECURSIVE ParseNat(_)
ParseNat(s) ==
    IF s = <<>> THEN 0
    ELSE 10 * ParseNat(SubSeq(s, 1, Len(s) - 1)) + DigitValue(s[Len(s)])

\* The letters that occur in the strings of the model.
AsciiLetter ==
    {"a", "b", "c", "d", "e", "m", "o", "p", "r", "w", "x", "A", "B", "C", "D"}

\* The segments of s between the occurrences of the separator: str::split.
RECURSIVE Split(_, _)
Split(s, sep) ==
    LET i == FindFirst(s, <<sep>>)
    IN  IF i = 0 THEN <<s>>
        ELSE <<SubSeq(s, 1, i - 1)>> \o Split(SubSeq(s, i + 1, Len(s)), sep)

\* semver: a numeric identifier is digits without a leading zero.
IsNumericIdentifier(s) ==
    /\ s # <<>>
    /\ IsDigits(s)
    /\ Len(s) > 1 => s[1] # "0"

\* semver: an identifier of a pre-release or of build metadata.
IsIdentifier(s) ==
    /\ s # <<>>
    /\ \A i \in 1..Len(s) :
          DigitValue(s[i]) < 10 \/ s[i] \in AsciiLetter \/ s[i] = "-"

\* semver: a pre-release is dot-separated identifiers, the numeric ones
\* without leading zeros.
IsPrerelease(s) ==
    \A i \in 1..Len(Split(s, ".")) :
        LET part == Split(s, ".")[i]
        IN  /\ IsIdentifier(part)
            /\ IsDigits(part) => IsNumericIdentifier(part)

\* semver: build metadata is dot-separated identifiers.
IsBuildMetadata(s) ==
    \A i \in 1..Len(Split(s, ".")) : IsIdentifier(Split(s, ".")[i])

\* semver::Version::from_str: major.minor.patch, then an optional
\* -pre-release, then optional +build metadata; an error otherwise.
SemverFromStr(s) ==
    LET plus == FindFirst(s, <<"+">>)
        front == IF plus = 0 THEN s ELSE SubSeq(s, 1, plus - 1)
        build == IF plus = 0 THEN <<>> ELSE SubSeq(s, plus + 1, Len(s))
        dash == FindFirst(front, <<"-">>)
        core == IF dash = 0 THEN front ELSE SubSeq(front, 1, dash - 1)
        pre == IF dash = 0 THEN <<>> ELSE SubSeq(front, dash + 1, Len(front))
        numbers == Split(core, ".")
        ok == /\ Len(numbers) = 3
              /\ \A i \in 1..3 : IsNumericIdentifier(numbers[i])
              /\ dash # 0 => IsPrerelease(pre)
              /\ plus # 0 => IsBuildMetadata(build)
    IN  IF ok
        THEN [ok |-> TRUE,
              version |-> [major |-> ParseNat(numbers[1]),
                           minor |-> ParseNat(numbers[2]),
                           patch |-> ParseNat(numbers[3]),
                           pre |-> pre, build |-> build]]
        ELSE [ok |-> FALSE, version |-> Semver(0, 0, 0, <<>>)]

\* str::parse::<u8>: an optional plus sign, then at least one digit, and a
\* value of at most 255.
U8FromStr(s) ==
    LET digits == IF s # <<>> /\ s[1] = "+" THEN Tail(s) ELSE s
        ok == digits # <<>> /\ IsDigits(digits) /\ ParseNat(digits) <= 255
    IN  [ok |-> ok, value |-> IF ok THEN ParseNat(digits) ELSE 0]

\* Snapshot::from_str: a string of Snapshot::LENGTH characters whose first
\* two and fourth and fifth parse as u8; its last character is the
\* identifier.  The third character is not looked at.
SnapshotFromStr(str) ==
    IF Len(str) = 6
    THEN LET year == U8FromStr(SubSeq(str, 1, 2))
             week == U8FromStr(SubSeq(str, 4, 5))
         IN  IF year.ok /\ week.ok
             THEN [ok |-> TRUE,
                   snapshot |-> Snapshot(year.value, week.value, str[Len(str)])]
             ELSE [ok |-> FALSE, snapshot |-> Snapshot(0, 0, "")]
    ELSE [ok |-> FALSE, snapshot |-> Snapshot(0, 0, "")]

\* MinecraftVersion::from: a semantic version, or one once ".0" is appended,
\* or a snapshot, or Unknown.
MinecraftVersionFrom(value) ==
    IF SemverFromStr(value).ok
    THEN Semantic(SemverFromStr(value).version)
    ELSE IF SemverFromStr(value \o <<".", "0">>).ok
    THEN Semantic(SemverFromStr(value \o <<".", "0">>).version)
    ELSE IF SnapshotFromStr(value).ok
    THEN SnapshotFromStr(value).snapshot
    ELSE Unknown(value)

\* Instance::new seeds allowed_foreign_loaders from the loader.
InstanceNew(minecraft_version, loader, loader_version) ==
    LET seeded == IF loader # "Minecraft" THEN {"Minecraft"} ELSE {}
        paired == CASE loader = "Forge" -> {"Neoforge"}
                    [] loader = "Neoforge" -> {"Forge"}
                    [] loader = "Fabric" -> {"Quilt"}
                    [] loader = "Quilt" -> {"Fabric"}
                    [] OTHER -> {}
    IN  [minecraft_version |-> minecraft_version,
         loader |-> loader,
         loader_version |-> loader_version,
         allowed_foreign_loaders |-> seeded \cup paired]

\* The allowed_foreign_loaders that `pack setup` computes for the loader.
SetupForeignLoaders(loader) ==
    LET base == {"Minecraft"}
        forge == IF loader = "Forge" \/ loader = "Neoforge"
                 THEN (base \cup {"Forge", "Neoforge"}) \ {loader}
                 ELSE base
    IN  IF loader = "Quilt" THEN forge \cup {"Fabric"} ELSE forge

\* The Instance that `pack setup` writes: the Minecraft version is always
\* wrapped as Semantic, and a vanilla pack's loader version is the game's.
SetupInstance(minecraft_version, loader, loader_version) ==
    [minecraft_version |-> Semantic(minecraft_version),
     loader |-> loader,
     loader_version |-> IF loader = "Minecraft" THEN minecraft_version
                        ELSE loader_version,
     allowed_foreign_loaders |-> SetupForeignLoaders(loader)]

\* The loaders a component may declare to be admitted: the instance's own
\* loader and its allowed foreign loaders.
allowed_loaders(instance) ==
    {instance.loader} \cup instance.allowed_foreign_loaders

----------------------------------------------------------------------------
(* The compatibility filter.                                               *)

\* The filter with the instance's own loader as the only supported one.
is_compatible_own_loader(version, instance) ==
    LET version_agnostic_project_types == {"Resourcepack", "Shader"}
        is_version_agnostic ==
            Cardinality(version.project_types
                          \cap version_agnostic_project_types) >= 1
        is_for_correct_version ==
            MinecraftVersionToString(instance.minecraft_version)
                \in version.game_versions
        has_unknown_loader == "Other" \in version.loaders
        has_supported_loader == instance.loader \in version.loaders
    IN  (is_version_agnostic \/ is_for_correct_version)
          /\ (has_unknown_loader \/ has_supported_loader)

\* Version::is_compatible
is_compatible(version, instance) ==
    LET version_agnostic_project_types == {"Resourcepack", "Shader"}
        is_version_agnostic ==
            Cardinality(version.project_types
                          \cap version_agnostic_project_types) >= 1
        is_for_correct_version ==
            MinecraftVersionToString(instance.minecraft_version)
                \in version.game_versions
        version_loaders == version.loaders
        has_unknown_loader == "Other" \in version.loaders
        has_supported_loader ==
            Cardinality(allowed_loaders(instance) \cap version_loaders) >= 1
    IN  (is_version_agnostic \/ is_for_correct_version)
          /\ (has_unknown_loader \/ has_supported_loader)

----------------------------------------------------------------------------
(* The remote registry: projects, their versions and dependencies.         *)

\* models::Dependency, with the fields the resolver reads.
Dependency(project_id, dependency_type) ==
    [project_id |-> project_id, dependency_type |-> dependency_type]

\* models::Version.  files holds the files' names; environment is "None"
\* when the registry gives none.
Version(id, project_types, game_versions, loaders, date_published, environment, file_names, dependencies) ==
    [id |-> id, project_types |-> project_types,
     game_versions |-> game_versions, loaders |-> loaders,
     date_published |-> date_published, environment |-> environment,
     files |-> file_names, dependencies |-> dependencies]

\* The identifiers and version strings the worlds below use.
alpha == <<"a">>
beta == <<"b">>
gamma == <<"c">>
delta == <<"d">>
Delta == <<"D">>
AlphaTyped == <<" ", "A">>

\* The registry's own project id of the project with this slug (the form
\* in which a version names its dependencies).
Pid(slug) == <<"P">> \o slug

v1_20_1 == <<"1", ".", "2", "0", ".", "1">>
v1_20 == <<"1", ".", "2", "0">>
v1_20_0 == <<"1", ".", "2", "0", ".", "0">>
v24w01a == <<"2", "4", "w", "0", "1", "a">>

\* A Mod version for 1.20.1 on Forge with one file.
ForgeMod(id, date, dependencies) ==
    Version(id, {"Mod"}, {v1_20_1}, {"Forge"}, date, "None",
            <<id>>, dependencies)

\* Scenario A: alpha requires beta.
RegistryChain ==
    [versions |-> (alpha :> <<ForgeMod("a1", 1,
                                 <<Dependency(Pid(beta), "Required")>>)>>)
               @@ (beta :> <<ForgeMod("b1", 1, <<>>)>>),
     projects |-> (Pid(beta) :> beta)]

\* Scenario B: alpha's only version is for Fabric; gamma requires alpha.
RegistryFabricOnly ==
    [versions |-> (alpha :> <<Version("a1", {"Mod"}, {v1_20_1}, {"Fabric"}, 1,
                                      "None", <<"a1">>, <<>>)>>)
               @@ (gamma :> <<ForgeMod("c1", 1,
                                 <<Dependency(Pid(alpha), "Required")>>)>>),
     projects |-> (Pid(alpha) :> alpha)]

\* Scenario D: alpha has one required and two optional dependencies.
RegistryOptional ==
    [versions |-> (alpha :> <<ForgeMod("a1", 1,
                                 <<Dependency(Pid(delta), "Optional"),
                                   Dependency(Pid(beta), "Required"),
                                   Dependency(Pid(gamma), "Optional")>>)>>)
               @@ (beta :> <<ForgeMod("b1", 1, <<>>)>>)
               @@ (gamma :> <<ForgeMod("c1", 1, <<>>)>>)
               @@ (delta :> <<ForgeMod("d1", 1, <<>>)>>),
     projects |-> (Pid(beta) :> beta) @@ (Pid(gamma) :> gamma)
               @@ (Pid(delta) :> delta)]

\* A diamond with a duplicated declaration and a cycle: alpha requires beta,
\* gamma and beta again; beta requires delta; gamma requires delta and alpha.
\* delta has an old and a new compatible version and one for another game
\* version, and declares two project types.
RegistryDiamond ==
    [versions |-> (alpha :> <<ForgeMod("a1", 1,
                                 <<Dependency(Pid(beta), "Required"),
                                   Dependency(Pid(gamma), "Required"),
                                   Dependency(Pid(beta), "Required")>>)>>)
               @@ (beta :> <<ForgeMod("b1", 1,
                                 <<Dependency(Pid(delta), "Required")>>)>>)
               @@ (gamma :> <<ForgeMod("c1", 1,
                                 <<Dependency(Pid(delta), "Required"),
                                   Dependency(Pid(alpha), "Required")>>)>>)
               @@ (delta :> <<Version("d1", {"Mod", "Datapack"}, {v1_20_1},
                                      {"Forge"}, 1, "ServerOnly", <<"d1">>, <<>>),
                              Version("d2", {"Mod", "Datapack"}, {v1_20_1},
                                      {"Neoforge"}, 2, "None", <<"d2">>, <<>>),
                              Version("d3", {"Mod"}, {v1_20},
                                      {"Forge"}, 3, "None", <<"d3">>, <<>>)>>),
     projects |-> (Pid(alpha) :> alpha) @@ (Pid(beta) :> beta)
               @@ (Pid(gamma) :> gamma) @@ (Pid(delta) :> delta)]

\* Cycles: alpha requires itself and beta, beta requires gamma, gamma
\* requires alpha and beta.
RegistryCycle ==
    [versions |-> (alpha :> <<ForgeMod("a1", 1,
                                 <<Dependency(Pid(alpha), "Required"),
                                   Dependency(Pid(beta), "Required")>>)>>)
               @@ (beta :> <<ForgeMod("b1", 1,
                                 <<Dependency(Pid(gamma), "Required")>>)>>)
               @@ (gamma :> <<ForgeMod("c1", 1,
                                 <<Dependency(Pid(alpha), "Required"),
                                   Dependency(Pid(beta), "Required")>>)>>),
     projects |-> (Pid(alpha) :> alpha) @@ (Pid(beta) :> beta)
               @@ (Pid(gamma) :> gamma)]

\* Irregular entries: alpha's version has no file; beta's declares no
\* project type; gamma is a resource pack for another game version that
\* requires a project the registry does not know and the project whose slug
\* is capitalised, "D".
RegistryIrregular ==
    [versions |-> (alpha :> <<Version("a1", {"Mod"}, {v1_20_1}, {"Forge"}, 1,
                                      "None", <<>>, <<>>)>>)
               @@ (beta :> <<Version("b1", {}, {v1_20_1}, {"Other"}, 1,
                                     "None", <<"b1">>, <<>>)>>)
               @@ (gamma :> <<Version("c1", {"Resourcepack"}, {v1_20},
                                      {"Minecraft"}, 1, "None", <<"c1">>,
                                      <<Dependency(Pid(<<"x">>), "Required"),
                                        Dependency(Pid(Delta), "Required")>>)>>)
               @@ (Delta :> <<ForgeMod("D1", 1, <<>>)>>),
     projects |-> (Pid(Delta) :> Delta)]

\* The instance of the test fixture: Forge for 1.20.1, by Instance::new.
ForgeInstance ==
    InstanceNew(Semantic(Semver(1, 20, 1, <<>>)), "Forge", Semver(47, 3, 22, <<>>))

\* The same instance with the allowed foreign loaders edited away in pack.yml.
BareForgeInstance ==
    [ForgeInstance EXCEPT !.allowed_foreign_loaders = {}]

\* A world: a registry, the pack's instance, and what the user may ask for:
\* the ids given to `component add`, the categories forced, the files given
\* to `component add --local`.
Worlds ==
    { [registry |-> RegistryChain, instance |-> ForgeInstance,
       roots |-> {alpha, AlphaTyped}, forced |-> {"None"},
       locals |-> {[dir |-> "mods", name |-> <<"A", ".", "j">>],
                   [dir |-> "docs", name |-> <<"b", ".", "t">>]}],
      [registry |-> RegistryFabricOnly, instance |-> BareForgeInstance,
       roots |-> {alpha, gamma}, forced |-> {"None"}, locals |-> {}],
      [registry |-> RegistryFabricOnly, instance |-> ForgeInstance,
       roots |-> {alpha, gamma}, forced |-> {"None"}, locals |-> {}],
      [registry |-> RegistryOptional, instance |-> ForgeInstance,
       roots |-> {alpha}, forced |-> {"None"}, locals |-> {}],
      [registry |-> RegistryDiamond, instance |-> ForgeInstance,
       roots |-> {alpha}, forced |-> {"None", "Shader"}, locals |-> {}],
      [registry |-> RegistryCycle, instance |-> ForgeInstance,
       roots |-> {alpha, beta}, forced |-> {"None"}, locals |-> {}],
      [registry |-> RegistryIrregular, instance |-> ForgeInstance,
       roots |-> {alpha, beta, gamma}, forced |-> {"None", "Config"},
       locals |-> {}] }

----------------------------------------------------------------------------
(* Components and the local repository.                                    *)

\* The characters of the model in the order of their code points.
CharOrder ==
    <<" ", ".", "0", "1", "2", "3", "4", "5", "6", "7", "8", "9",
      "A", "B", "C", "D", "P", "a", "b", "c", "d", "j", "t", "w", "x">>

CharRank(c) ==
    CHOOSE i \in 1..Len(CharOrder) : CharOrder[i] = c

\* str's Ord: lexicographic by code point.
RECURSIVE StrLess(_, _)
StrLess(s, t) ==
    IF t = <<>> THEN FALSE
    ELSE IF s = <<>> THEN TRUE
    ELSE IF Head(s) = Head(t) THEN StrLess(Tail(s), Tail(t))
    ELSE CharRank(Head(s)) < CharRank(Head(t))

\* Path::file_stem: the name up to its last dot, a leading dot apart.
FileStem(name) ==
    LET dots == { i \in 2..Len(name) : name[i] = "." }
    IN  IF dots = {} THEN name
        ELSE SubSeq(name, 1, (CHOOSE i \in dots : \A j \in dots : j <= i) - 1)

RuntimeDirectory ==
    {"config", "datapacks", "mods", "resourcepacks", "shaderpacks"}

\* From<Category> for RuntimeDirectory
RuntimeDirectoryFrom(category) ==
    CASE category = "Mod" -> "mods"
      [] category = "Resourcepack" -> "resourcepacks"
      [] category = "Shader" -> "shaderpacks"
      [] category = "Datapack" -> "datapacks"
      [] category = "Config" -> "config"

\* From<RuntimeDirectory> for Category
CategoryFrom(runtime_dir) ==
    CASE runtime_dir = "config" -> "Config"
      [] runtime_dir = "datapacks" -> "Datapack"
      [] runtime_dir = "mods" -> "Mod"
      [] runtime_dir = "resourcepacks" -> "Resourcepack"
      [] runtime_dir = "shaderpacks" -> "Shader"

\* From<Environment> for Env
EnvFrom(environment) ==
    CASE environment = "ClientOnly" ->
            [client |-> "Required", server |-> "Unsupported"]
      [] environment = "ServerOnly" ->
            [client |-> "Unsupported", server |-> "Required"]
      [] environment = "ClientAndServer" ->
            [client |-> "Required", server |-> "Required"]

\* TagInformation::none
Untagged ==
    [main |-> "None", others |-> <<>>]

\* LocalComponentEntry::id
EntryId(entry) ==
    IdFrom(FileStem(entry.path.name))

\* No manifest on disk.
NoPack ==
    [exists |-> FALSE]

\* Settings::default
DefaultSettings ==
    [vcs_mode |-> "TrackComponents",
     backup_mode |-> [kind |-> "StartStop", min_depth |-> 4]]

\* A freshly written Pack: version 0.1.0, default settings, no local component.
NewPack(name, instance) ==
    [exists |-> TRUE, name |-> name, version |-> Semver(0, 1, 0, <<>>),
     instance |-> instance, settings |-> DefaultSettings,
     local_components |-> <<>>]

\* The elements of a finite set in some order (a directory walk's order).
RECURSIVE SetToSeq(_)
SetToSeq(S) ==
    IF S = {} THEN <<>>
    ELSE LET x == CHOOSE y \in S : TRUE
         IN  <<x>> \o SetToSeq(S \ {x})

\* LocalRepository::components on the given manifest and metadata files: every
\* metadata file's component, then one component per manifest entry.
ComponentsOf(p, fs) ==
    LET walked == SetToSeq(fs)
    IN  [i \in 1..Len(walked) |-> walked[i].component]
          \o [i \in 1..Len(p.local_components) |->
                [id |-> EntryId(p.local_components[i]),
                 category |-> p.local_components[i].category,
                 tags |-> Untagged,
                 environment |-> [client |-> "Required", server |-> "Required"],
                 source |-> [kind |-> "Local",
                             path |-> p.local_components[i].path]]]

\* LocalRepository::components
components ==
    ComponentsOf(pack, files)

\* LocalRepository::component_path
component_path(component) ==
    [dir |-> RuntimeDirectoryFrom(component.category),
     tag |-> component.tags.main,
     id |-> component.id]

\* The save that writes a local entry into a manifest whose instance allows
\* no foreign loader.
SaveIntoBareInstance(p, fs, component) ==
    IF component.source.kind = "Local"
    THEN [pack |-> [p EXCEPT !.local_components =
                        Append(@, [path |-> component.source.path,
                                   category |-> component.category]),
                      !.instance.allowed_foreign_loaders = {}],
          files |-> fs]
    ELSE [pack |-> p,
          files |-> { f \in fs : f.path # component_path(component) }
                      \cup {[path |-> component_path(component),
                             component |-> component]}]

\* LocalRepository::save_component on the given manifest and metadata files.
SaveInto(p, fs, component) ==
    IF component.source.kind = "Local"
    THEN [pack |-> [p EXCEPT !.local_components =
                        Append(@, [path |-> component.source.path,
                                   category |-> component.category])],
          files |-> fs]
    ELSE [pack |-> p,
          files |-> { f \in fs : f.path # component_path(component) }
                      \cup {[path |-> component_path(component),
                             component |-> component]}]

\* LocalRepository::save_component
save_component(component) ==
    /\ pack' = SaveInto(pack, files, component).pack
    /\ files' = SaveInto(pack, files, component).files

\* The loop of LocalRepository::remove_components over the components listed
\* when it starts: a remote one's metadata file is removed (an error when it
\* is not where component_path says), a local one's entries leave the manifest.
RECURSIVE RemoveLoop(_, _, _)
RemoveLoop(matching, id, st) ==
    IF matching = <<>> \/ st.result = "Io" THEN st
    ELSE LET component == Head(matching)
             path == component_path(component)
         IN  IF component.source.kind = "Remote"
             THEN IF \E f \in st.files : f.path = path
                  THEN RemoveLoop(Tail(matching), id,
                         [st EXCEPT !.files = { f \in @ : f.path # path },
                                    !.result = "Ok"])
                  ELSE [st EXCEPT !.result = "Io"]
             ELSE RemoveLoop(Tail(matching), id,
                    [st EXCEPT !.pack.local_components =
                                 SelectSeq(@, LAMBDA e : EntryId(e) # IdFrom(id)),
                               !.result = "Ok"])

\* The removal with the requested string compared as it was typed.
remove_components_as_typed(p, fs, id) ==
    RemoveLoop(SelectSeq(ComponentsOf(p, fs), LAMBDA c : c.id = id), id,
               [pack |-> p, files |-> fs, result |-> "ComponentNotFound"])

\* LocalRepository::remove_components
remove_components(p, fs, id) ==
    RemoveLoop(SelectSeq(ComponentsOf(p, fs), LAMBDA c : c.id = IdFrom(id)), id,
               [pack |-> p, files |-> fs, result |-> "ComponentNotFound"])

----------------------------------------------------------------------------
(* CLI commands, and the bookkeeping the properties read.                  *)

NoVersion ==
    Version("", {}, {}, {}, 0, "None", <<>>, <<>>)

NoError ==
    [kind |-> "None", id |-> <<>>, loaders |-> {}]

\* One call of add_component_from_modrinth: its arguments, its locals, and
\* where it stands.  serial is the index of its record in log.invocations;
\* declared and failed keep, for the log, the dependencies of the selected
\* version as the registry gave them and the ones whose lookup failed.
Frame(id, forced_category) ==
    [pc |-> "enter", id |-> id, forced_category |-> forced_category,
     installed_components |-> <<>>, versions |-> <<>>,
     selected_version |-> NoVersion, pending_dependencies |-> <<>>,
     optional_deps |-> <<>>, selected |-> <<>>, next |-> 1, serial |-> 0,
     declared |-> <<>>, failed |-> {}]

Event(op, id, category, parent) ==
    [op |-> op, id |-> id, category |-> category, parent |-> parent]

EmptyLog ==
    [events |-> <<>>, invocations |-> <<>>, lookup_failed |-> FALSE]

IdleCommand ==
    [seq |-> 0, kind |-> "none", id |-> <<>>, forced_category |-> "None",
     status |-> "idle", error |-> NoError, before |-> <<>>]

\* The ids of the dependencies in a sequence.
ProjectIds(dependencies) ==
    { dependencies[i].project_id : i \in 1..Len(dependencies) }

\* The Ids of the components in a sequence.
ComponentIds(cs) ==
    { cs[i].id : i \in 1..Len(cs) }

\* The events of the log with this operation.
EventsOf(op) ==
    SelectSeq(log.events, LAMBDA e : e.op = op)

\* What is kept of a command once the next one starts.
Summary ==
    [kind |-> cmd.kind, id |-> cmd.id, status |-> cmd.status,
     fetched |-> Len(EventsOf("fetch_versions")),
     root_saved |-> \E i \in 1..Len(log.events) :
                       /\ log.events[i].op = "save"
                       /\ log.events[i].id = IdFrom(cmd.id),
     root_required |-> IF log.invocations = <<>> THEN {}
                       ELSE log.invocations[1].required]

\* A command may start: none is running, and the bound is not reached.
CanStart ==
    /\ cmd.status # "running"
    /\ cmd.seq < MaxCommands

StartCommand(kind, id, forced_category, status, error) ==
    /\ prev' = Summary
    /\ cmd' = [seq |-> cmd.seq + 1, kind |-> kind, id |-> id,
               forced_category |-> forced_category, status |-> status,
               error |-> error,
               before |-> IF pack.exists THEN components ELSE <<>>]

Top ==
    stack[Len(stack)]

SetTop(frame) ==
    stack' = [stack EXCEPT ![Len(stack)] = frame]

\* `return Ok(())`: the caller goes on with its next pending dependency; the
\* outermost call ends the command.
ReturnOk ==
    IF Len(stack) = 1
    THEN /\ stack' = <<>>
         /\ cmd' = [cmd EXCEPT !.status = "ok"]
    ELSE /\ stack' = [SubSeq(stack, 1, Len(stack) - 1)
                        EXCEPT ![Len(stack) - 1].next = @ + 1]
         /\ UNCHANGED cmd

\* The error is noted and the caller goes on with its next pending
\* dependency.
FailAndGoOn(error) ==
    /\ stack' = IF Len(stack) = 1 THEN <<>>
                ELSE [SubSeq(stack, 1, Len(stack) - 1)
                        EXCEPT ![Len(stack) - 1].next = @ + 1]
    /\ cmd' = [cmd EXCEPT !.status = "err", !.error = error]

\* `return Err(..)` and every `?`: the error goes up through every caller.
Fail(error) ==
    /\ stack' = <<>>
    /\ cmd' = [cmd EXCEPT !.status = "err", !.error = error]

\* `invar component add <id> [--forced-category c]`: the repository is opened
\* and add_component_from_modrinth is called for the id.
\* A command line naming several ids runs these steps for each id in turn
\* on the one repository handle and stops at the first error; a behaviour
\* here gives one id per command.
AddRemote ==
    \E id \in world.roots, forced_category \in world.forced :
        /\ CanStart
        /\ pack.exists
        /\ StartCommand("add", id, forced_category, "running", NoError)
        /\ stack' = <<Frame(id, forced_category)>>
        /\ log' = EmptyLog
        /\ UNCHANGED <<pack, files, world, probe, conv, server, race, backup_dir>>

\* The installed test that finds nothing installed.
IsInstalledNever(installed_components, id) ==
    FALSE

\* The installed test with the requested string compared as it was typed.
IsInstalledAsTyped(installed_components, id) ==
    \E i \in 1..Len(installed_components) :
        installed_components[i].id = id

\* Whether the requested id, made an Id, is the Id of an installed component.
IsInstalled(installed_components, id) ==
    \E i \in 1..Len(installed_components) :
        installed_components[i].id = IdFrom(id)

\* add_component_from_modrinth, the installed check: an id already among the
\* installed components is reported and the call returns Ok.
CheckInstalled ==
    /\ stack # <<>>
    /\ Top.pc = "enter"
    /\ LET installed_components == components
       IN  IF IsInstalled(installed_components, Top.id)
           THEN /\ log' = [log EXCEPT !.events =
                             Append(@, Event("installed", Top.id, "None", 0))]
                /\ ReturnOk
           ELSE /\ SetTop([Top EXCEPT !.pc = "fetch",
                             !.installed_components = installed_components])
                /\ UNCHANGED <<cmd, log>>
    /\ UNCHANGED <<pack, files, prev, world, probe, conv, server, race, backup_dir>>

\* ModrinthRepository::fetch_versions: the versions of the project with this
\* slug or registry id; an error for any other id.
KnownProject(id) ==
    id \in DOMAIN world.registry.versions
      \/ id \in DOMAIN world.registry.projects

fetch_versions(id) ==
    IF id \in DOMAIN world.registry.versions
    THEN world.registry.versions[id]
    ELSE world.registry.versions[world.registry.projects[id]]

\* The orders sorted_unstable_by_key(date_published) followed by rev() can
\* give: newest first, versions of one date in any order.
SortedNewestFirst(versions) ==
    LET n == Len(versions)
        orders == { p \in [1..n -> 1..n] :
                      /\ \A i, j \in 1..n : i # j => p[i] # p[j]
                      /\ \A i, j \in 1..n : i < j =>
                            versions[p[i]].date_published
                              >= versions[p[j]].date_published }
    IN  { [i \in 1..n |-> versions[p[i]]] : p \in orders }

\* The report naming the instance's own loader only.
NoCompatibleReportOwnLoader(id, instance) ==
    [kind |-> "NoCompatibleVersion", id |-> id,
     loaders |-> {instance.loader}]

\* The report of add_component_from_modrinth when no version is compatible:
\* its note names the instance's allowed loaders.
NoCompatibleReport(id, instance) ==
    [kind |-> "NoCompatibleVersion", id |-> id,
     loaders |-> allowed_loaders(instance)]

\* add_component_from_modrinth, fetch and filter: a registry error is
\* returned; so is the no-compatible-version report, which names the
\* instance's allowed loaders.
FetchVersions ==
    /\ stack # <<>>
    /\ Top.pc = "fetch"
    /\ log' = [log EXCEPT !.events =
                 Append(@, Event("fetch_versions", Top.id, "None", 0))]
    /\ \E transport_ok \in BOOLEAN :
          IF ~transport_ok \/ ~KnownProject(Top.id)
          THEN Fail([kind |-> "Registry", id |-> Top.id, loaders |-> {}])
          ELSE LET instance == pack.instance
                   compatible ==
                       SelectSeq(fetch_versions(Top.id),
                                 LAMBDA version : is_compatible(version, instance))
               IN  IF compatible = <<>>
                   THEN Fail(NoCompatibleReport(Top.id, instance))
                   ELSE /\ \E versions \in SortedNewestFirst(compatible) :
                              SetTop([Top EXCEPT !.pc = "select",
                                                 !.versions = versions])
                        /\ UNCHANGED cmd
    /\ UNCHANGED <<pack, files, prev, world, probe, conv, server, race, backup_dir>>

\* add_component_from_modrinth, the version prompt: the user picks one of
\* the versions listed, or cancels the prompt, which is an error.
SelectVersion ==
    /\ stack # <<>>
    /\ Top.pc = "select"
    /\ \E choice \in 0..Len(Top.versions) :
          IF choice = 0
          THEN Fail([kind |-> "Prompt", id |-> Top.id, loaders |-> {}])
          ELSE /\ SetTop([Top EXCEPT !.pc = "resolve",
                            !.selected_version = Top.versions[choice]])
               /\ UNCHANGED cmd
    /\ UNCHANGED <<pack, files, prev, log, world, probe, conv, server, race, backup_dir>>

\* Every dependency kept: one whose lookup failed stays as it was declared.
RetainEvery(dependencies, failed) ==
    [k \in 1..Len(dependencies) |->
       IF k \in failed THEN dependencies[k]
       ELSE [dependencies[k] EXCEPT !.project_id =
               world.registry.projects[dependencies[k].project_id]]]

\* dependencies.retain_mut over the lookups that failed: a dependency whose
\* project lookup succeeded takes the project's slug as its id, the others
\* are dropped.
RetainResolved(dependencies, failed) ==
    LET kept == SelectSeq([i \in 1..Len(dependencies) |-> i],
                          LAMBDA i : i \notin failed)
    IN  [k \in 1..Len(kept) |->
           [dependencies[kept[k]] EXCEPT !.project_id =
              world.registry.projects[dependencies[kept[k]].project_id]]]

\* add_component_from_modrinth, dependency names: one fetch_project per
\* declared dependency; a lookup fails for a project the registry does not
\* know, and may fail in transport.
ResolveDependencyNames ==
    /\ stack # <<>>
    /\ Top.pc = "resolve"
    /\ LET dependencies == Top.selected_version.dependencies
           unknown == { i \in 1..Len(dependencies) :
                          dependencies[i].project_id
                            \notin DOMAIN world.registry.projects }
       IN  \E failed \in SUBSET (1..Len(dependencies)) :
              /\ unknown \subseteq failed
              /\ SetTop([Top EXCEPT !.pc = "partition",
                           !.selected_version.dependencies =
                               RetainResolved(dependencies, failed),
                           !.declared = dependencies,
                           !.failed = failed])
              /\ log' = [log EXCEPT
                           !.events = @ \o [i \in 1..Len(dependencies) |->
                               Event("fetch_project",
                                     dependencies[i].project_id, "None", 0)],
                           !.lookup_failed = @ \/ failed # {}]
    /\ UNCHANGED <<pack, files, cmd, prev, world, probe, conv, server, race, backup_dir>>

\* Version::required_dependencies
required_dependencies(version) ==
    SelectSeq(version.dependencies,
              LAMBDA dependency : dependency.dependency_type = "Required")

\* Version::optional_dependencies
optional_dependencies(version) ==
    SelectSeq(version.dependencies,
              LAMBDA dependency : dependency.dependency_type = "Optional")

\* The orders sorted_unstable_by_key(project_id) can give.
SortedByProjectId(dependencies) ==
    LET n == Len(dependencies)
        orders == { p \in [1..n -> 1..n] :
                      /\ \A i, j \in 1..n : i # j => p[i] # p[j]
                      /\ \A i, j \in 1..n : i < j =>
                            ~StrLess(dependencies[p[j]].project_id,
                                     dependencies[p[i]].project_id) }
    IN  { [i \in 1..n |-> dependencies[p[i]]] : p \in orders }

\* The pending list extended with every optional dependency offered.
PendingWithEveryOptional(required, optional_deps, picked) ==
    required \o optional_deps

\* pending_dependencies: the required dependencies, extended with the
\* optional dependencies the user picked.
Pending(required, optional_deps, picked) ==
    required \o picked

\* add_component_from_modrinth, the partition: required dependencies are
\* pending; the optional ones, sorted by id, are offered in a multi-select
\* (only when there are some) and the ones chosen are pending too.
SelectOptional ==
    /\ stack # <<>>
    /\ Top.pc = "partition"
    /\ LET required == required_dependencies(Top.selected_version)
       IN  \E optional_deps \in
                 SortedByProjectId(optional_dependencies(Top.selected_version)) :
              IF optional_deps = <<>>
              THEN /\ SetTop([Top EXCEPT !.pc = "filter",
                                !.pending_dependencies = required])
                   /\ UNCHANGED cmd
              ELSE \E cancelled \in BOOLEAN,
                      chosen \in SUBSET (1..Len(optional_deps)) :
                      IF cancelled
                      THEN Fail([kind |-> "Prompt", id |-> Top.id,
                                 loaders |-> {}])
                      ELSE LET selected ==
                                   SelectSeq(
                                     [i \in 1..Len(optional_deps) |-> i],
                                     LAMBDA i : i \in chosen)
                               picked == [k \in 1..Len(selected) |->
                                            optional_deps[selected[k]]]
                           IN  /\ SetTop([Top EXCEPT !.pc = "filter",
                                            !.optional_deps = optional_deps,
                                            !.selected = picked,
                                            !.pending_dependencies =
                                                Pending(required,
                                                        optional_deps,
                                                        picked)])
                               /\ UNCHANGED cmd
    /\ UNCHANGED <<pack, files, prev, log, world, probe, conv, server, race, backup_dir>>

\* The pending list with nothing taken out of it.
StillPendingKeepsAll(pending_dependencies, installed_components) ==
    pending_dependencies

\* The pending list with the installed dependencies kept and the others
\* taken out.
StillPendingInverted(pending_dependencies, installed_components) ==
    SelectSeq(pending_dependencies,
              LAMBDA dependency :
                \E i \in 1..Len(installed_components) :
                    installed_components[i].id = dependency.project_id)

\* pending_dependencies.extract_if: the pending dependencies left once those
\* whose id is the Id of an installed component are taken out.
StillPending(pending_dependencies, installed_components) ==
    SelectSeq(pending_dependencies,
              LAMBDA dependency :
                ~\E i \in 1..Len(installed_components) :
                    installed_components[i].id = dependency.project_id)

\* add_component_from_modrinth, the already-installed dependencies: they
\* leave the pending list and are reported; the rest is reported as pending.
FilterInstalled ==
    /\ stack # <<>>
    /\ Top.pc = "filter"
    /\ SetTop([Top EXCEPT !.pc = "save",
                 !.pending_dependencies =
                     StillPending(Top.pending_dependencies,
                                  Top.installed_components),
                 !.serial = Len(log.invocations) + 1])
    /\ log' = [log EXCEPT !.invocations =
                 Append(@, [id |-> Top.id,
                            required |->
                              ProjectIds(required_dependencies(Top.selected_version)),
                            offered |-> ProjectIds(Top.optional_deps),
                            selected |-> ProjectIds(Top.selected),
                            installed |-> ComponentIds(Top.installed_components),
                            pending |->
                              LET still == StillPending(Top.pending_dependencies,
                                                        Top.installed_components)
                              IN  [i \in 1..Len(still) |-> still[i].project_id],
                            declared |-> Top.declared,
                            failed |-> Top.failed,
                            forced_category |-> Top.forced_category,
                            selected_version |-> Top.selected_version,
                            done |-> FALSE])]
    /\ UNCHANGED <<pack, files, cmd, prev, world, probe, conv, server, race, backup_dir>>

\* The environment of a component of this category when the registry
\* declares none.
DefaultEnvironment(category) ==
    IF category \in {"Resourcepack", "Shader"} THEN "ClientOnly"
    ELSE "ClientAndServer"

\* The Component built for the requested id from the selected version, with
\* first_type the project type the version's set yields first.
BuildComponent(id, forced_category, selected_version, first_type) ==
    LET category == IF forced_category # "None" THEN forced_category
                    ELSE first_type
    IN  [id |-> IdFrom(id),
         category |-> category,
         tags |-> Untagged,
         environment |->
             EnvFrom(IF selected_version.environment # "None"
                     THEN selected_version.environment
                     ELSE DefaultEnvironment(category)),
         source |-> [kind |-> "Remote",
                     version_id |-> selected_version.id,
                     file_name |-> Head(selected_version.files)]]

\* add_component_from_modrinth, construct and persist: the first file is
\* unwrapped (a panic when there is none), the first project type is
\* required before forced_category is looked at, and the component is saved.
SaveComponent ==
    /\ stack # <<>>
    /\ Top.pc = "save"
    /\ IF Top.selected_version.files = <<>>
       THEN /\ stack' = <<>>
            /\ cmd' = [cmd EXCEPT !.status = "panic"]
            /\ UNCHANGED <<pack, files, log>>
       ELSE IF Top.selected_version.project_types = {}
       THEN /\ Fail([kind |-> "NoProjectTypes", id |-> Top.id, loaders |-> {}])
            /\ UNCHANGED <<pack, files, log>>
       ELSE \E first_type \in Top.selected_version.project_types :
               LET component == BuildComponent(Top.id, Top.forced_category,
                                               Top.selected_version, first_type)
               IN  /\ save_component(component)
                   /\ log' = [log EXCEPT !.events =
                                Append(@, Event("save", component.id,
                                                component.category, Top.serial))]
                   /\ SetTop([Top EXCEPT !.pc = "recurse", !.next = 1])
                   /\ UNCHANGED cmd
    /\ UNCHANGED <<prev, world, probe, conv, server, race, backup_dir>>

\* The recursive call made without a forced category.
ChildFrameUnforced(frame, pending_dependency) ==
    Frame(pending_dependency.project_id, "None")

\* The recursive call: the dependency's id, the caller's forced_category.
ChildFrame(frame, pending_dependency) ==
    Frame(pending_dependency.project_id, frame.forced_category)

\* The pending dependencies taken from the last one to the first.
LastPendingFirst(frame) ==
    frame.pending_dependencies[Len(frame.pending_dependencies) + 1 - frame.next]

\* `for pending_dependency in &pending_dependencies`: the dependency the
\* loop has reached, in the order of the list.
NextPending(frame) ==
    frame.pending_dependencies[frame.next]

\* add_component_from_modrinth, the recursion: the next pending dependency
\* is resolved by a call with its id and the caller's forced_category; after
\* the last one the call returns Ok.
Recurse ==
    /\ stack # <<>>
    /\ Top.pc = "recurse"
    /\ IF Top.next <= Len(Top.pending_dependencies)
       THEN LET pending_dependency == NextPending(Top)
            IN  /\ stack' = Append(stack, ChildFrame(Top, pending_dependency))
                /\ log' = [log EXCEPT !.events =
                             Append(@, Event("call", pending_dependency.project_id,
                                             "None", Top.serial))]
                /\ UNCHANGED cmd
       ELSE /\ ReturnOk
            /\ log' = [log EXCEPT !.invocations[Top.serial].done = TRUE]
    /\ UNCHANGED <<pack, files, prev, world, probe, conv, server, race, backup_dir>>

\* The process is killed while a command runs: what is on disk stays.
Interrupt ==
    /\ cmd.status = "running"
    /\ stack' = <<>>
    /\ cmd' = [cmd EXCEPT !.status = "interrupted"]
    /\ UNCHANGED <<pack, files, prev, log, world, probe, conv, server, race, backup_dir>>

\* `invar component add --local <path> [--forced-category c]`: the category
\* comes from the file's parent directory unless forced, and the entry is
\* appended to the manifest.
AddLocal ==
    \E path \in world.locals, forced_category \in world.forced :
        /\ CanStart
        /\ pack.exists
        /\ IF path.dir \notin RuntimeDirectory
           THEN /\ StartCommand("add-local", path.name, forced_category, "err",
                                [kind |-> "Categorize", id |-> path.name,
                                 loaders |-> {}])
                /\ log' = EmptyLog
                /\ UNCHANGED <<pack, files>>
           ELSE LET component ==
                        [id |-> IdFrom(path.name),
                         source |-> [kind |-> "Local", path |-> path],
                         environment |-> [client |-> "Required",
                                          server |-> "Required"],
                         tags |-> Untagged,
                         category |-> IF forced_category # "None"
                                      THEN forced_category
                                      ELSE CategoryFrom(path.dir)]
                IN  /\ StartCommand("add-local", path.name, forced_category,
                                    "ok", NoError)
                    /\ save_component(component)
                    /\ log' = [EmptyLog EXCEPT !.events =
                                 <<Event("save_local", component.id,
                                         component.category, 0)>>]
        /\ UNCHANGED <<stack, world, probe, conv, server, race, backup_dir>>

\* The ids the user may give to `component remove`.
Removable ==
    world.roots \cup { FileStem(path.name) : path \in world.locals }

\* `invar component remove <id>`
RemoveComponent ==
    \E id \in Removable :
        /\ CanStart
        /\ pack.exists
        /\ log' = EmptyLog
        /\ LET removed == remove_components(pack, files, id)
           IN  /\ pack' = removed.pack
               /\ files' = removed.files
               /\ StartCommand("remove", id, "None",
                               IF removed.result = "Ok" THEN "ok" ELSE "err",
                               [kind |-> removed.result, id |-> id,
                                loaders |-> {}])
        /\ UNCHANGED <<stack, world, probe, conv, server, race, backup_dir>>

\* The folders a user moves a metadata file to, and the main tags a user
\* writes into one.
ShuffleFolders ==
    {[dir |-> "mods", tag |-> "None"], [dir |-> "config", tag |-> "None"],
     [dir |-> "mods", tag |-> "t"]}

ShuffleTags ==
    {"None", "t"}

\* Between two commands the user moves a component's metadata file to
\* another folder of the repository; the file keeps its name and content.
MoveMetadataFile ==
    /\ cmd.status # "running"
    /\ \E f \in files, folder \in ShuffleFolders :
          LET moved == [f EXCEPT !.path.dir = folder.dir,
                                 !.path.tag = folder.tag]
          IN  /\ moved.path # f.path
              /\ ~\E g \in files : g.path = moved.path
              /\ files' = (files \ {f}) \cup {moved}
    /\ UNCHANGED <<pack, stack, cmd, prev, log, world, probe, conv, server, race, backup_dir>>

\* Between two commands the user edits the main tag written in a
\* component's metadata file; the file stays where it is.
EditMainTag ==
    /\ cmd.status # "running"
    /\ \E f \in files, tag \in ShuffleTags :
          /\ tag # f.component.tags.main
          /\ files' = (files \ {f})
                        \cup {[f EXCEPT !.component.tags.main = tag]}
    /\ UNCHANGED <<pack, stack, cmd, prev, log, world, probe, conv, server, race, backup_dir>>

\* The versions the user may give to `pack setup`, and the loaders' versions.
SetupVersions ==
    {Semver(1, 20, 1, <<>>), Semver(1, 20, 0, <<>>)}

\* `invar pack setup`: unless --overwrite is given, an existing pack is kept
\* when the user does not confirm; otherwise a new pack is written.
SetupPack ==
    \E minecraft_version \in SetupVersions, loader \in Loader,
       overwrite \in BOOLEAN, confirmed \in BOOLEAN :
        /\ CanStart
        /\ log' = EmptyLog
        /\ StartCommand("setup", <<>>, "None", "ok", NoError)
        /\ IF ~overwrite /\ pack.exists /\ ~confirmed
           THEN UNCHANGED pack
           ELSE pack' = NewPack("pack",
                                SetupInstance(minecraft_version, loader,
                                              Semver(47, 3, 22, <<>>)))
        /\ UNCHANGED <<files, stack, world, probe, conv, server, race, backup_dir>>

\* The Minecraft versions an instance built by Instance::new may carry.
InstanceVersions ==
    {Semantic(Semver(1, 20, 1, <<>>)), Semantic(Semver(1, 20, 0, <<>>)),
     Snapshot(24, 1, "a")}

\* A pack whose instance comes from Instance::new is written, as the
\* repository's test fixture does.
FixturePack ==
    \E minecraft_version \in InstanceVersions, loader \in Loader :
        /\ CanStart
        /\ log' = EmptyLog
        /\ StartCommand("fixture", <<>>, "None", "ok", NoError)
        /\ pack' = NewPack("invar-repository-test",
                           InstanceNew(minecraft_version, loader,
                                       Semver(47, 3, 22, <<>>)))
        /\ UNCHANGED <<files, stack, world, probe, conv, server, race, backup_dir>>

----------------------------------------------------------------------------
(* The compatibility filter on its own.                                    *)

NoProbe ==
    [version |-> NoVersion, done |-> FALSE, result |-> FALSE]

\* The sets of loaders a version under the filter declares.
ProbeLoaders ==
    { L \in SUBSET Loader : Cardinality(L) <= MaxLoaders }

\* The versions put under the filter.
ProbeVersions ==
    { Version("p", project_types, game_versions, loaders, 1, "None",
              <<"p">>, <<>>) :
        project_types \in {{}, {"Mod"}, {"Resourcepack"}, {"Shader"},
                           {"Mod", "Datapack"}, {"Mod", "Shader"}},
        game_versions \in SUBSET {v1_20_1, v1_20, v1_20_0, v24w01a},
        loaders \in ProbeLoaders }

\* The instances the filter is given: built by Instance::new, written by
\* `pack setup`, or with the allowed foreign loaders edited away.
ProbeInstances ==
    { InstanceNew(mv, loader, Semver(47, 3, 22, <<>>)) :
        mv \in InstanceVersions, loader \in Loader }
      \cup { SetupInstance(v, loader, Semver(47, 3, 22, <<>>)) :
               v \in SetupVersions, loader \in Loader }
      \cup { [InstanceNew(mv, loader, Semver(47, 3, 22, <<>>))
                EXCEPT !.allowed_foreign_loaders = {}] :
               mv \in InstanceVersions, loader \in Loader }

\* Version::is_compatible is applied to the version under the filter.
CheckCompatible ==
    /\ ~probe.done
    /\ probe' = [probe EXCEPT !.done = TRUE,
                   !.result = is_compatible(probe.version, pack.instance)]
    /\ UNCHANGED <<pack, files, stack, cmd, prev, log, world, conv, server, race, backup_dir>>

----------------------------------------------------------------------------
(* The server and its backups.                                             *)

\* No server is set up, there is no backup, and no server command has run.
NoServer ==
    [set_up |-> FALSE, backups |-> {}, container |-> "down",
     command |-> "none", status |-> "idle", events |-> <<>>,
     before |-> {}, count |-> 0]

\* A backup directory, by what get_all_backups reads off its name.
Backup(seq_number, tag) ==
    [seq_number |-> seq_number, tag |-> tag]

\* One step of a server command: a backup created, a garbage collection, or
\* a run of docker compose.
ServerEvent(op, seq_number, outcome, removed, remaining) ==
    [op |-> op, seq_number |-> seq_number, outcome |-> outcome,
     removed |-> removed, remaining |-> remaining]

\* The sequence numbers of these backups.
SeqNumbers(backups) ==
    { backups[i].seq_number : i \in 1..Len(backups) }

\* get_all_backups: the backup directories in the orders that
\* sorted_unstable_by_key(seq_number) followed by rev() can give, highest
\* sequence number first.
get_all_backups(directories) ==
    LET n == Cardinality(directories)
    IN  { all \in [1..n -> directories] :
            /\ \A i, j \in 1..n : i # j => all[i] # all[j]
            /\ \A i, j \in 1..n : i < j =>
                  all[i].seq_number >= all[j].seq_number }

\* create_new's sequence number: one more than the highest there is, one
\* when there is no backup.
NextSeqNumber(directories) ==
    IF directories = {} THEN 1
    ELSE (CHOOSE n \in { b.seq_number : b \in directories } :
            \A b \in directories : b.seq_number <= n) + 1

\* gc: in StartStop mode drain(..min_depth) takes the min_depth newest
\* backups as remaining, and panics when there are fewer than min_depth;
\* the others are removed.  In Manual mode nothing is removed.
gc(all_backups, backup_mode) ==
    IF backup_mode.kind = "StartStop"
    THEN IF backup_mode.min_depth > Len(all_backups)
         THEN [outcome |-> "panic", remaining |-> all_backups,
               removed |-> <<>>]
         ELSE [outcome |-> "ok",
               remaining |-> SubSeq(all_backups, 1, backup_mode.min_depth),
               removed |-> SubSeq(all_backups, backup_mode.min_depth + 1,
                                  Len(all_backups))]
    ELSE [outcome |-> "ok", remaining |-> all_backups, removed |-> <<>>]

\* backup::create_new(tag) followed by backup::gc(), as start and stop call
\* them: the copy of the data directory may fail, which ends the command
\* with an error and no new directory; the new backup is there when gc runs.
BackupThenGc(directories, tag, copied, backup_mode) ==
    IF ~copied
    THEN { [outcome |-> "err", backups |-> directories,
            events |-> <<ServerEvent("create_new", NextSeqNumber(directories),
                                     "err", {}, {})>>] }
    ELSE LET new_backup == Backup(NextSeqNumber(directories), tag)
             created == directories \cup {new_backup}
         IN  { [outcome |-> gc(all_backups, backup_mode).outcome,
                backups |-> created
                    \ { b \in created :
                          b.seq_number
                            \in SeqNumbers(gc(all_backups, backup_mode).removed) },
                events |->
                    <<ServerEvent("create_new", new_backup.seq_number, "ok",
                                  {}, {}),
                      ServerEvent("gc", 0,
                                  gc(all_backups, backup_mode).outcome,
                                  SeqNumbers(gc(all_backups, backup_mode).removed),
                                  SeqNumbers(gc(all_backups, backup_mode).remaining))>>] :
                 all_backups \in get_all_backups(created) }

\* The server command that ends: what it did, and how it ended.
EndServerCommand(command, outcome, backups, container, events) ==
    server' = [server EXCEPT !.command = command, !.status = outcome,
                 !.backups = backups, !.container = container,
                 !.events = events, !.before = server.backups,
                 !.count = @ + 1]

\* `invar server setup`: docker-compose.yaml is written unless it exists.
ServerSetup ==
    /\ server.count < MaxServerCommands
    /\ pack.exists
    /\ IF server.set_up
       THEN EndServerCommand("setup", "err", server.backups,
                             server.container, <<>>)
       ELSE server' = [server EXCEPT !.set_up = TRUE, !.command = "setup",
                         !.status = "ok", !.events = <<>>,
                         !.before = server.backups, !.count = @ + 1]
    /\ UNCHANGED <<pack, files, stack, cmd, prev, log, world, probe, conv, race, backup_dir>>

\* `invar server start`, DockerCompose::start: in StartStop mode a
\* "pre-start" backup is created and gc runs; then `docker compose up
\* --detach` is run, and its exit status decides the result.
ServerStart ==
    /\ server.count < MaxServerCommands
    /\ pack.exists
    /\ IF ~server.set_up
       THEN EndServerCommand("start", "err", server.backups,
                             server.container, <<>>)
       ELSE \E copied \in BOOLEAN, exited \in {"ok", "err"} :
              \E backed \in
                    IF pack.settings.backup_mode.kind = "StartStop"
                    THEN BackupThenGc(server.backups, "pre-start", copied,
                                      pack.settings.backup_mode)
                    ELSE { [outcome |-> "ok", backups |-> server.backups,
                            events |-> <<>>] } :
                 IF backed.outcome # "ok"
                 THEN EndServerCommand("start", backed.outcome, backed.backups,
                                       server.container, backed.events)
                 ELSE EndServerCommand(
                          "start", exited, backed.backups,
                          IF exited = "ok" THEN "up" ELSE server.container,
                          Append(backed.events,
                                 ServerEvent("compose_up", 0, exited, {}, {})))
    /\ UNCHANGED <<pack, files, stack, cmd, prev, log, world, probe, conv, race, backup_dir>>

\* `invar server stop`, DockerCompose::stop: a "post-stop" backup is created
\* and gc runs, whatever the backup mode; then `docker compose down` is run,
\* and its exit status decides the result.
ServerStop ==
    /\ server.count < MaxServerCommands
    /\ pack.exists
    /\ IF ~server.set_up
       THEN EndServerCommand("stop", "err", server.backups,
                             server.container, <<>>)
       ELSE \E copied \in BOOLEAN, exited \in {"ok", "err"} :
              \E backed \in BackupThenGc(server.backups, "post-stop", copied,
                                         pack.settings.backup_mode) :
                 IF backed.outcome # "ok"
                 THEN EndServerCommand("stop", backed.outcome, backed.backups,
                                       server.container, backed.events)
                 ELSE EndServerCommand(
                          "stop", exited, backed.backups,
                          IF exited = "ok" THEN "down" ELSE server.container,
                          Append(backed.events,
                                 ServerEvent("compose_down", 0, exited, {}, {})))
    /\ UNCHANGED <<pack, files, stack, cmd, prev, log, world, probe, conv, race, backup_dir>>

----------------------------------------------------------------------------
(* Conversions between values and their written forms.                     *)

\* Nothing is under conversion.
NoConv ==
    [kind |-> "none", done |-> FALSE, ok |-> TRUE,
     text |-> <<>>, value |-> Unknown(<<>>),
     back_text |-> <<>>, back_value |-> Unknown(<<>>),
     written |-> FALSE, document |-> [exists |-> FALSE]]

\* Pre-release tags.
pre1 == <<"p", "r", "e", "1">>
rc2 == <<"r", "c", "2">>

\* The version strings handed to MinecraftVersion::from: the ones of the
\* test version_parsing, and strings of the same shapes.
VersionStrings ==
    { <<"1", ".", "2", "0", ".", "1">>, <<"1", ".", "1", "2", ".", "2">>,
      <<"1", ".", "1", "7">>, <<"2", "4", "w", "0", "1", "a">>,
      <<"1", "8", "w", "1", "0", "d">>, <<"1", "5", "w", "3", "5", "e">>,
      <<"1", ".", "2", "1", ".", "2", "-", "r", "c", "2">>,
      <<"1", ".", "2", "1", ".", "2", "-">> \o pre1,
      <<"1", ".", "5", "+", "m", "o", "d">>,
      <<"1", ".", "2", "0", ".", "0">>, <<"1", ".", "0">>, <<"1", ".", "0", ".", "0">>,
      <<"1", ".", "2", "0", "-">> \o pre1,
      <<"1", ".", "2", "0", ".", "0", "-">> \o pre1,
      <<"1", ".", "5", ".", "0", "+", "m", "o", "d">>,
      <<"1", ".", "0", "2", ".", "3">>, <<"1", ".", "2", ".", "3", "-">>,
      <<"1", ".", "2", ".", "3", "-", "0", "1">>,
      <<"2", "4", "x", "0", "1", "a">>, <<"+", "1", "w", "+", "2", "a">>,
      <<"2", "4", "w", "1", "a">>, <<"2", "2", "w", "1", "3", "o", "b">>,
      <<"1", "0", ".", "0">>, <<"0", ".", "0">>, <<>> }

\* The MinecraftVersion values rendered: semantic versions with zero and
\* non-zero parts, with and without a pre-release, snapshots, and Unknown
\* with strings that semver does not parse, as deserialisation gives them.
VersionValues ==
    { Semantic(Semver(major, minor, patch, pre)) :
        major \in {0, 1, 10}, minor \in {0, 17, 20}, patch \in {0, 2},
        pre \in {<<>>, pre1, rc2} }
      \cup { Snapshot(year, week, identifier) :
                year \in {14, 24}, week \in {1, 26}, identifier \in {"a", "e"} }
      \cup { Unknown(str) :
                str \in { t \in VersionStrings : ~SemverFromStr(t).ok } }

\* The Snapshot values rendered: year and week over the range of u8.
SnapshotValues ==
    { Snapshot(year, week, identifier) :
        year \in {0, 9, 24, 99, 100, 255}, week \in {1, 10, 53, 100},
        identifier \in {"a", "d"} }

\* The strings handed to Snapshot::from_str.
SnapshotStrings ==
    VersionStrings
      \cup { SnapshotToString(snapshot) : snapshot \in SnapshotValues }

\* MinecraftVersion::from is applied to a string, and the value is rendered.
VersionFromString ==
    /\ conv.kind = "version-from"
    /\ ~conv.done
    /\ conv' = [conv EXCEPT !.done = TRUE,
                  !.value = MinecraftVersionFrom(conv.text),
                  !.back_text =
                      MinecraftVersionToString(MinecraftVersionFrom(conv.text))]
    /\ UNCHANGED <<pack, files, stack, cmd, prev, log, world, probe, server, race, backup_dir>>

\* A MinecraftVersion is rendered, and MinecraftVersion::from reads it back.
VersionToString ==
    /\ conv.kind = "version-to"
    /\ ~conv.done
    /\ conv' = [conv EXCEPT !.done = TRUE,
                  !.text = MinecraftVersionToString(conv.value),
                  !.back_value =
                      MinecraftVersionFrom(MinecraftVersionToString(conv.value))]
    /\ UNCHANGED <<pack, files, stack, cmd, prev, log, world, probe, server, race, backup_dir>>

\* Snapshot::from_str is applied to a string; what it accepts is rendered.
SnapshotFromString ==
    /\ conv.kind = "snapshot-from"
    /\ ~conv.done
    /\ LET parsed == SnapshotFromStr(conv.text)
       IN  conv' = [conv EXCEPT !.done = TRUE,
                      !.ok = parsed.ok,
                      !.value = parsed.snapshot,
                      !.back_text = IF parsed.ok
                                    THEN SnapshotToString(parsed.snapshot)
                                    ELSE <<>>]
    /\ UNCHANGED <<pack, files, stack, cmd, prev, log, world, probe, server, race, backup_dir>>

\* A Snapshot is rendered, and Snapshot::from_str reads it back.
SnapshotToStringAndBack ==
    /\ conv.kind = "snapshot-to"
    /\ ~conv.done
    /\ LET parsed == SnapshotFromStr(SnapshotToString(conv.value))
       IN  conv' = [conv EXCEPT !.done = TRUE,
                      !.text = SnapshotToString(conv.value),
                      !.ok = parsed.ok,
                      !.back_value = parsed.snapshot]
    /\ UNCHANGED <<pack, files, stack, cmd, prev, log, world, probe, server, race, backup_dir>>

----------------------------------------------------------------------------
(* The names in the backup directory.                                      *)

\* usize::MAX
UsizeMax ==
    2 ^ UsizeBits - 1

\* str::parse::<usize>: digits after an optional plus sign, no more than
\* usize::MAX.
UsizeFromStr(s) ==
    LET digits == IF s # <<>> /\ s[1] = "+" THEN Tail(s) ELSE s
        ok == digits # <<>> /\ IsDigits(digits) /\ ParseNat(digits) <= UsizeMax
    IN  [ok |-> ok, value |-> IF ok THEN ParseNat(digits) ELSE 0]

\* get_all_backups, the sequence number read off a directory's name: what
\* stands before the first separator parsed as usize, usize::MAX when that
\* is no number.
SeqNumberOf(name) ==
    LET marker == UsizeFromStr(Split(name, "_")[1])
    IN  IF marker.ok THEN marker.value ELSE UsizeMax

\* The names of sub-directories a backup directory may hold that create_new
\* did not make: numbered ones, and ones without a number before the
\* separator.
BackupDirNames ==
    {<<"1", "_", "p">>, <<"0", "3", "_", "p">>, <<"+", "2", "_", "p">>,
     <<"7">>, <<"m", "a", "n", "u", "a", "l">>, <<"9", "9", "9", "_", "p">>}

\* No create_new has run.
NoBackupDir ==
    [names |-> {}, created |-> 0,
     last |-> [op |-> "none", outcome |-> "none", seq_number |-> 0,
               existing |-> {}]]

\* What `+ 1` does on usize::MAX: a panic in a build with overflow checks,
\* zero in a build without.
OverflowOutcomes ==
    {"panic", "wrap"}

\* The name create_new gives its directory: the sequence number, the pack's
\* name and the time, with the separator between them.
TargetDir(seq_number, created_at) ==
    Digits(seq_number) \o <<"_", "p", "_">> \o Digits(created_at)

\* backup::create_new: the greatest sequence number among the
\* sub-directories (zero when there is none) plus one, in usize; then the
\* data directory is copied to the new directory, which may fail.
CreateNew ==
    /\ backup_dir.created < MaxCreated
    /\ LET existing == { SeqNumberOf(name) : name \in backup_dir.names }
           greatest == IF existing = {} THEN 0
                       ELSE CHOOSE n \in existing : \A m \in existing : m <= n
       IN  \E overflow \in OverflowOutcomes, copied \in BOOLEAN :
              LET seq_number == (greatest + 1) % (UsizeMax + 1)
                  outcome == IF greatest = UsizeMax /\ overflow = "panic"
                             THEN "panic"
                             ELSE IF copied THEN "ok" ELSE "err"
              IN  backup_dir' =
                    [names |-> IF outcome = "ok"
                               THEN backup_dir.names
                                      \cup {TargetDir(seq_number,
                                                      backup_dir.created)}
                               ELSE backup_dir.names,
                     created |-> backup_dir.created + 1,
                     last |-> [op |-> "create_new", outcome |-> outcome,
                               seq_number |-> seq_number,
                               existing |-> existing]]
    /\ UNCHANGED <<pack, files, stack, cmd, prev, log, world, probe, conv, server, race>>

----------------------------------------------------------------------------
(* Two processes on one repository.                                        *)

Procs ==
    {1, 2}

\* The files the two users add with `component add --local`.
RaceLocals ==
    {[dir |-> "mods", name |-> <<"A", ".", "j">>],
     [dir |-> "config", name |-> <<"b", ".", "t">>]}

\* A process that runs no command.
IdleProcess ==
    [pc |-> "idle", count |-> 0, read |-> NoPack, copy |-> NoPack,
     op |-> "none", path |-> [dir |-> "", name |-> <<>>], id |-> <<>>,
     result |-> "none"]

NoRace ==
    [procs |-> [p \in Procs |-> IdleProcess], last_writer |-> 0]

\* LocalRepository::open: a process starts a command and reads the manifest
\* into its own Pack; nothing is locked.
RaceOpen(p) ==
    /\ race.procs[p].pc # "opened"
    /\ race.procs[p].count < MaxRaceCommands
    /\ \E op \in {"add", "remove"}, path \in RaceLocals :
          race' = [race EXCEPT !.procs[p] =
                     [pc |-> "opened", count |-> @.count + 1,
                      read |-> pack, copy |-> pack, op |-> op,
                      path |-> path, id |-> FileStem(path.name),
                      result |-> "none"]]
    /\ UNCHANGED <<pack, files, stack, cmd, prev, log, world, probe, conv, server, backup_dir>>

\* The manifest taken from the disk at the time of the write.
ManifestOnDisk(own, on_disk) ==
    [on_disk EXCEPT !.local_components =
        IF Len(own.local_components) > Len(on_disk.local_components)
        THEN Append(@, own.local_components[Len(own.local_components)])
        ELSE SelectSeq(@, LAMBDA e :
                 \E i \in 1..Len(own.local_components) :
                     own.local_components[i] = e)]

\* PersistedEntity::write for the Pack of a repository handle: the file is
\* replaced by the handle's own Pack, whatever the file holds by now.
ManifestToWrite(own, on_disk) ==
    own

\* `component add --local` in a process: the entry is pushed onto the
\* process's Pack, which is written out.
RaceAddLocal(p) ==
    /\ race.procs[p].pc = "opened"
    /\ race.procs[p].op = "add"
    /\ LET proc == race.procs[p]
           component == [id |-> IdFrom(proc.path.name),
                         source |-> [kind |-> "Local", path |-> proc.path],
                         environment |-> [client |-> "Required",
                                          server |-> "Required"],
                         tags |-> Untagged,
                         category |-> CategoryFrom(proc.path.dir)]
           saved == SaveInto(proc.copy, files, component).pack
       IN  /\ pack' = ManifestToWrite(saved, pack)
           /\ race' = [race EXCEPT !.procs[p].pc = "done",
                                   !.procs[p].copy = saved,
                                   !.procs[p].result = "Ok",
                                   !.last_writer = p]
    /\ UNCHANGED <<files, stack, cmd, prev, log, world, probe, conv, server, backup_dir>>

\* `component remove` in a process: the entries with the Id leave the
\* process's Pack, which is written out; with no such component nothing is
\* written.
RaceRemove(p) ==
    /\ race.procs[p].pc = "opened"
    /\ race.procs[p].op = "remove"
    /\ LET proc == race.procs[p]
           removed == remove_components(proc.copy, files, proc.id)
       IN  /\ files' = removed.files
           /\ IF removed.result = "Ok"
              THEN /\ pack' = ManifestToWrite(removed.pack, pack)
                   /\ race' = [race EXCEPT !.procs[p].pc = "done",
                                           !.procs[p].copy = removed.pack,
                                           !.procs[p].result = "Ok",
                                           !.last_writer = p]
              ELSE /\ pack' = pack
                   /\ race' = [race EXCEPT !.procs[p].pc = "done",
                                           !.procs[p].result = removed.result]
    /\ UNCHANGED <<stack, cmd, prev, log, world, probe, conv, server, backup_dir>>

----------------------------------------------------------------------------
(* Specifications.                                                         *)

NoSummary ==
    [kind |-> "none", id |-> <<>>, status |-> "idle", fetched |-> 0,
     root_saved |-> FALSE, root_required |-> {}]

\* A repository whose pack is set up and holds no component yet, in one of
\* the worlds.
Init ==
    /\ world \in Worlds
    /\ pack = NewPack("pack", world.instance)
    /\ files = {}
    /\ stack = <<>>
    /\ cmd = IdleCommand
    /\ prev = NoSummary
    /\ log = EmptyLog
    /\ probe = NoProbe
    /\ conv = NoConv
    /\ server = NoServer
    /\ race = NoRace
    /\ backup_dir = NoBackupDir

Next ==
    \/ AddRemote
    \/ CheckInstalled
    \/ FetchVersions
    \/ SelectVersion
    \/ ResolveDependencyNames
    \/ SelectOptional
    \/ FilterInstalled
    \/ SaveComponent
    \/ Recurse
    \/ Interrupt
    \/ AddLocal
    \/ RemoveComponent

Spec ==
    Init /\ [][Next]_vars

\* The commands of Spec on the registry of scenario A, with a user who
\* moves metadata files and edits their tags between the commands.
InitShuffle ==
    /\ Init
    /\ world.registry = RegistryChain

NextShuffle ==
    \/ Next
    \/ MoveMetadataFile
    \/ EditMainTag

SpecShuffle ==
    InitShuffle /\ [][NextShuffle]_vars

\* A step of add_component_from_modrinth.
ResolverStep ==
    \/ CheckInstalled
    \/ FetchVersions
    \/ SelectVersion
    \/ ResolveDependencyNames
    \/ SelectOptional
    \/ FilterInstalled
    \/ SaveComponent
    \/ Recurse

\* The registries whose dependencies make cycles, with a resolver that goes
\* on: the registry answers, the user answers the prompts, and a call that
\* can take its next step takes it.
InitLive ==
    /\ Init
    /\ world.registry \in {RegistryDiamond, RegistryCycle}

NextLive ==
    \/ AddRemote
    \/ ResolverStep
    \/ Interrupt

SpecLive ==
    InitLive /\ [][NextLive]_vars /\ WF_vars(ResolverStep)

\* A backup directory with any of the names, in which create_new runs.
InitBackup ==
    /\ world \in { w \in Worlds : w.registry = RegistryChain }
    /\ pack = NewPack("pack", world.instance)
    /\ files = {}
    /\ stack = <<>>
    /\ cmd = IdleCommand
    /\ prev = NoSummary
    /\ log = EmptyLog
    /\ probe = NoProbe
    /\ conv = NoConv
    /\ server = NoServer
    /\ race = NoRace
    /\ \E names \in SUBSET BackupDirNames :
          backup_dir = [NoBackupDir EXCEPT !.names = names]

NextBackup ==
    CreateNew

SpecBackup ==
    InitBackup /\ [][NextBackup]_vars

\* Two users run `component add --local` and `component remove` on one
\* repository at the same time.
InitRace ==
    /\ Init
    /\ world.registry = RegistryChain

NextRace ==
    \E p \in Procs :
        \/ RaceOpen(p)
        \/ RaceAddLocal(p)
        \/ RaceRemove(p)

SpecRace ==
    InitRace /\ [][NextRace]_vars

\* A directory with no pack yet, in which packs are created and local
\* components added and removed.
InitSetup ==
    /\ world \in { w \in Worlds : w.locals # {} }
    /\ pack = NoPack
    /\ files = {}
    /\ stack = <<>>
    /\ cmd = IdleCommand
    /\ prev = NoSummary
    /\ log = EmptyLog
    /\ probe = NoProbe
    /\ conv = NoConv
    /\ server = NoServer
    /\ race = NoRace
    /\ backup_dir = NoBackupDir

NextSetup ==
    \/ SetupPack
    \/ FixturePack
    \/ AddLocal
    \/ RemoveComponent

SpecSetup ==
    InitSetup /\ [][NextSetup]_vars

\* A version and an instance are drawn, and the filter is applied.
InitCompat ==
    /\ world \in { w \in Worlds : w.registry = RegistryChain }
    /\ \E instance \in ProbeInstances : pack = NewPack("pack", instance)
    /\ files = {}
    /\ stack = <<>>
    /\ cmd = IdleCommand
    /\ prev = NoSummary
    /\ log = EmptyLog
    /\ \E version \in ProbeVersions : probe = [NoProbe EXCEPT !.version = version]
    /\ conv = NoConv
    /\ server = NoServer
    /\ race = NoRace
    /\ backup_dir = NoBackupDir

NextCompat ==
    CheckCompatible

SpecCompat ==
    InitCompat /\ [][NextCompat]_vars

\* A YAML scalar holding a string.
YamlString(string) ==
    [node |-> "string", string |-> string,
     year |-> 0, week |-> 0, identifier |-> ""]

\* The YAML mapping that the derived Serialize of Snapshot writes.
YamlSnapshot(snapshot) ==
    [node |-> "mapping", string |-> <<>>,
     year |-> snapshot.year, week |-> snapshot.week,
     identifier |-> snapshot.identifier]

\* Serialize for MinecraftVersion with the semantic variant written the way
\* Display renders it.
MinecraftVersionDisplayedToYaml(mv) ==
    CASE mv.kind = "Semantic" -> YamlString(MinecraftVersionToString(mv))
      [] mv.kind = "Snapshot" -> YamlSnapshot(mv)
      [] mv.kind = "Unknown" -> YamlString(mv.str)

\* Serialize for MinecraftVersion, #[serde(untagged)]: the variant's content
\* alone; semver::Version is written as its full string.
MinecraftVersionToYaml(mv) ==
    CASE mv.kind = "Semantic" -> YamlString(SemverToString(mv.version))
      [] mv.kind = "Snapshot" -> YamlSnapshot(mv)
      [] mv.kind = "Unknown" -> YamlString(mv.str)

\* Deserialize for MinecraftVersion, #[serde(untagged)]: the first variant,
\* in declaration order, that the node deserialises into.
MinecraftVersionFromYaml(node) ==
    IF node.node = "string" /\ SemverFromStr(node.string).ok
    THEN Semantic(SemverFromStr(node.string).version)
    ELSE IF node.node = "mapping"
    THEN Snapshot(node.year, node.week, node.identifier)
    ELSE Unknown(node.string)

\* Serialize for Loader, #[serde(rename_all = "lowercase")].
LoaderToYaml(loader) ==
    CASE loader = "Minecraft" -> "minecraft"
      [] loader = "Forge" -> "forge"
      [] loader = "Neoforge" -> "neoforge"
      [] loader = "Fabric" -> "fabric"
      [] loader = "Quilt" -> "quilt"
      [] loader = "Other" -> "other"

\* Deserialize for Loader: the lowercase names, the aliases of Minecraft,
\* and Other for every other string.
LoaderFromYaml(name) ==
    CASE name \in {"minecraft", "vanilla", "none", "datapack"} -> "Minecraft"
      [] name = "forge" -> "Forge"
      [] name = "neoforge" -> "Neoforge"
      [] name = "fabric" -> "Fabric"
      [] name = "quilt" -> "Quilt"
      [] OTHER -> "Other"

\* Serialize for Category, #[serde(rename_all = "camelCase")].
CategoryToYaml(category) ==
    CASE category = "Mod" -> "mod"
      [] category = "Resourcepack" -> "resourcepack"
      [] category = "Shader" -> "shader"
      [] category = "Datapack" -> "datapack"
      [] category = "Config" -> "config"

\* Deserialize for Category: the camelCase names and the aliases.
CategoryFromYaml(name) ==
    CASE name \in {"mod", "plugin"} -> "Mod"
      [] name = "resourcepack" -> "Resourcepack"
      [] name \in {"shader", "shaderpack"} -> "Shader"
      [] name = "datapack" -> "Datapack"
      [] name = "config" -> "Config"

\* Serialize for Settings: both enums in snake_case, StartStop with its field.
SettingsToYaml(settings) ==
    [vcs_mode |-> IF settings.vcs_mode = "TrackComponents"
                  THEN "track_components" ELSE "manual",
     backup_mode |-> IF settings.backup_mode.kind = "StartStop"
                     THEN [tag |-> "start_stop",
                           min_depth |-> settings.backup_mode.min_depth]
                     ELSE [tag |-> "manual", min_depth |-> 0]]

\* Deserialize for Settings.
SettingsFromYaml(node) ==
    [vcs_mode |-> IF node.vcs_mode = "track_components"
                  THEN "TrackComponents" ELSE "Manual",
     backup_mode |-> IF node.backup_mode.tag = "start_stop"
                     THEN [kind |-> "StartStop",
                           min_depth |-> node.backup_mode.min_depth]
                     ELSE [kind |-> "Manual", min_depth |-> 0]]

\* serde_yml::to_string of a Pack, as PersistedEntity::write stores it.
PackToYaml(p) ==
    [exists |-> TRUE,
     name |-> p.name,
     version |-> SemverToString(p.version),
     instance |->
         [minecraft_version |-> MinecraftVersionToYaml(p.instance.minecraft_version),
          loader |-> LoaderToYaml(p.instance.loader),
          loader_version |-> SemverToString(p.instance.loader_version),
          allowed_foreign_loaders |->
              { LoaderToYaml(l) : l \in p.instance.allowed_foreign_loaders }],
     settings |-> SettingsToYaml(p.settings),
     local_components |->
         [i \in 1..Len(p.local_components) |->
            [path |-> p.local_components[i].path,
             category |-> CategoryToYaml(p.local_components[i].category)]]]

\* serde_yml::from_str of a Pack, as PersistedEntity::read returns it; no
\* Pack when a version string is not a semantic version.
PackFromYaml(document) ==
    IF SemverFromStr(document.version).ok
         /\ SemverFromStr(document.instance.loader_version).ok
    THEN [exists |-> TRUE,
          name |-> document.name,
          version |-> SemverFromStr(document.version).version,
          instance |->
              [minecraft_version |->
                   MinecraftVersionFromYaml(document.instance.minecraft_version),
               loader |-> LoaderFromYaml(document.instance.loader),
               loader_version |->
                   SemverFromStr(document.instance.loader_version).version,
               allowed_foreign_loaders |->
                   { LoaderFromYaml(l) :
                       l \in document.instance.allowed_foreign_loaders }],
          settings |-> SettingsFromYaml(document.settings),
          local_components |->
              [i \in 1..Len(document.local_components) |->
                 [path |-> document.local_components[i].path,
                  category |->
                      CategoryFromYaml(document.local_components[i].category)]]]
    ELSE NoPack

\* The settings a pack may carry.
PersistedSettings ==
    { DefaultSettings,
      [vcs_mode |-> "Manual", backup_mode |-> [kind |-> "Manual", min_depth |-> 0]],
      [vcs_mode |-> "TrackComponents",
       backup_mode |-> [kind |-> "StartStop", min_depth |-> 0]] }

\* The local component entries a pack may carry.
PersistedLocals ==
    { <<>>,
      <<[path |-> [dir |-> "mods", name |-> <<"A", ".", "j">>],
         category |-> "Mod"]>>,
      <<[path |-> [dir |-> "mods", name |-> <<"A", ".", "j">>],
         category |-> "Shader"],
        [path |-> [dir |-> "config", name |-> <<"b", ".", "t">>],
         category |-> "Config"]>> }

\* The packs written: with an instance from Instance::new over a version
\* that MinecraftVersion::from gave, or with the instance of `pack setup`.
PersistedPacks ==
    { [NewPack("pack", instance) EXCEPT !.settings = settings,
                                        !.local_components = locals] :
        instance \in
            { InstanceNew(MinecraftVersionFrom(text), loader,
                          Semver(47, 3, 22, <<>>)) :
                text \in VersionStrings, loader \in {"Forge", "Minecraft", "Other"} }
              \cup { SetupInstance(v, loader, Semver(0, 16, 0, <<>>)) :
                       v \in SetupVersions, loader \in {"Quilt", "Minecraft"} },
        settings \in PersistedSettings,
        locals \in PersistedLocals }

\* PersistedEntity::write: the pack is serialised into pack.yml.
WritePack ==
    /\ conv.kind = "pack"
    /\ ~conv.written
    /\ conv' = [conv EXCEPT !.written = TRUE,
                  !.document = PackToYaml(conv.value)]
    /\ UNCHANGED <<pack, files, stack, cmd, prev, log, world, probe, server, race, backup_dir>>

\* PersistedEntity::read: pack.yml is deserialised into a Pack.
ReadPack ==
    /\ conv.kind = "pack"
    /\ conv.written
    /\ ~conv.done
    /\ conv' = [conv EXCEPT !.done = TRUE,
                  !.ok = PackFromYaml(conv.document).exists,
                  !.back_value = PackFromYaml(conv.document)]
    /\ UNCHANGED <<pack, files, stack, cmd, prev, log, world, probe, server, race, backup_dir>>

\* A string or a value is drawn, and converted there and back.
InitConvert ==
    /\ world \in { w \in Worlds : w.registry = RegistryChain }
    /\ pack = NewPack("pack", world.instance)
    /\ files = {}
    /\ stack = <<>>
    /\ cmd = IdleCommand
    /\ prev = NoSummary
    /\ log = EmptyLog
    /\ probe = NoProbe
    /\ server = NoServer
    /\ race = NoRace
    /\ backup_dir = NoBackupDir
    /\ \/ \E text \in VersionStrings :
             conv = [NoConv EXCEPT !.kind = "version-from", !.text = text]
       \/ \E value \in VersionValues :
             conv = [NoConv EXCEPT !.kind = "version-to", !.value = value]
       \/ \E text \in SnapshotStrings :
             conv = [NoConv EXCEPT !.kind = "snapshot-from", !.text = text]
       \/ \E value \in SnapshotValues :
             conv = [NoConv EXCEPT !.kind = "snapshot-to", !.value = value]
       \/ \E value \in PersistedPacks :
             conv = [NoConv EXCEPT !.kind = "pack", !.value = value]

NextConvert ==
    \/ VersionFromString
    \/ VersionToString
    \/ SnapshotFromString
    \/ SnapshotToStringAndBack
    \/ WritePack
    \/ ReadPack

SpecConvert ==
    InitConvert /\ [][NextConvert]_vars

\* The backup modes a pack's settings may hold.
BackupModes ==
    { [kind |-> "StartStop", min_depth |-> min_depth] :
        min_depth \in 0..MaxMinDepth }
      \cup { [kind |-> "Manual", min_depth |-> 0] }

\* A pack with one of the backup modes; no server is set up yet.
InitServer ==
    /\ world \in { w \in Worlds : w.registry = RegistryChain }
    /\ \E backup_mode \in BackupModes :
          pack = [NewPack("pack", world.instance)
                    EXCEPT !.settings.backup_mode = backup_mode]
    /\ files = {}
    /\ stack = <<>>
    /\ cmd = IdleCommand
    /\ prev = NoSummary
    /\ log = EmptyLog
    /\ probe = NoProbe
    /\ conv = NoConv
    /\ server = NoServer
    /\ race = NoRace
    /\ backup_dir = NoBackupDir

NextServer ==
    \/ ServerSetup
    \/ ServerStart
    \/ ServerStop

SpecServer ==
    InitServer /\ [][NextServer]_vars

----------------------------------------------------------------------------
(* Properties.                                                             *)

\* The ids given to fetch_versions by the current command, in order.
FetchedIds ==
    [i \in 1..Len(EventsOf("fetch_versions")) |->
       EventsOf("fetch_versions")[i].id]

\* The Ids of the components now installed.
InstalledIds ==
    ComponentIds(components)

\* C1: for every version v and instance i, is_compatible(v, i) is true
\* exactly when (v's project types include Resourcepack or Shader, or
\* v.game_versions contains the rendering of i's Minecraft version) and
\* (v.loaders contains Other, or some loader of v is i's loader or one of
\* i's allowed foreign loaders); a version with no loader is never
\* compatible, and neither is one with no admissible loader, whatever its
\* project types.
C1_FilterCorrectness ==
    probe.done =>
        LET v == probe.version
            i == pack.instance
            version_admissible ==
                \/ \E t \in v.project_types : t \in {"Resourcepack", "Shader"}
                \/ \E g \in v.game_versions :
                      g = MinecraftVersionToString(i.minecraft_version)
            loader_admissible ==
                \/ \E l \in v.loaders : l = "Other"
                \/ \E l \in v.loaders :
                      l = i.loader \/ l \in i.allowed_foreign_loaders
        IN  /\ probe.result <=> (version_admissible /\ loader_admissible)
            /\ v.loaders = {} => ~probe.result
            /\ ~loader_admissible => ~probe.result

\* A resource pack for another game version, admitted through a foreign
\* loader only, on an instance for 1.20.0, which renders as "1.20".
C1_Witness ==
    /\ probe.done
    /\ probe.result
    /\ probe.version.project_types = {"Resourcepack"}
    /\ probe.version.game_versions = {v1_20_0}
    /\ pack.instance.minecraft_version = Semantic(Semver(1, 20, 0, <<>>))
    /\ pack.instance.loader = "Forge"
    /\ probe.version.loaders = {"Neoforge"}

\* C2: an add of an id that is already installed returns success at once,
\* with no registry call, no save and no change to the installed components.
C2_AddIsIdempotent ==
    (cmd.kind = "add" /\ IdFrom(cmd.id) \in ComponentIds(cmd.before)) =>
        /\ cmd.status \in {"running", "ok", "interrupted"}
        /\ \A i \in 1..Len(log.events) : log.events[i].op = "installed"
        /\ log.invocations = <<>>
        /\ components = cmd.before
        /\ cmd.status = "running" => (Len(stack) = 1 /\ Top.pc = "enter")

\* The second of two successive adds of one id has returned success without
\* a registry call; the first one fetched.
C2_Witness ==
    /\ cmd.kind = "add"
    /\ cmd.status = "ok"
    /\ prev.kind = "add"
    /\ prev.id = cmd.id
    /\ prev.status = "ok"
    /\ prev.fetched > 0
    /\ Len(log.events) = 1
    /\ log.events[1].op = "installed"

\* The ids for which the invocation with this serial number has recursed.
Recursed(k) ==
    { log.events[i].id : i \in { j \in 1..Len(log.events) :
                                   /\ log.events[j].op = "call"
                                   /\ log.events[j].parent = k } }

C4_CategoryInheritance ==
    (cmd.kind = "add" /\ cmd.forced_category # "None") =>
        \A i \in 1..Len(log.events) :
            log.events[i].op = "save" =>
                /\ log.events[i].category = cmd.forced_category
                /\ \A f \in files :
                      f.component.id = log.events[i].id =>
                          f.component.category = cmd.forced_category

\* The diamond is installed as shaders: four components, delta, which
\* declares Mod and Datapack, by an invocation two calls below the root.
C4_Witness ==
    /\ cmd.kind = "add"
    /\ cmd.status = "ok"
    /\ cmd.forced_category = "Shader"
    /\ Len(EventsOf("save")) = 4
    /\ \E f \in files : /\ f.component.id = delta
                        /\ f.component.category = "Shader"
                        /\ f.path.dir = "shaderpacks"

\* Scenario D: nothing is installed, the root's selected version declares
\* one required and two optional dependencies, none of which has
\* dependencies of its own, and the user selects one optional dependency.
ScenarioD ==
    /\ cmd.kind = "add"
    /\ cmd.before = <<>>
    /\ log.invocations # <<>>
    /\ Cardinality(log.invocations[1].required) = 1
    /\ Cardinality(log.invocations[1].offered) = 2
    /\ Cardinality(log.invocations[1].selected) = 1
    /\ \A d \in log.invocations[1].required \cup log.invocations[1].offered :
          \A i \in 1..Len(world.registry.versions[d]) :
              world.registry.versions[d][i].dependencies = <<>>

\* The optional dependency of Scenario D that the user did not select.
Unselected ==
    log.invocations[1].offered \ log.invocations[1].selected

\* C5 as stated: in Scenario D a successful add installs the root, the
\* required dependency and the chosen optional one and nothing else, and no
\* registry call at all is made for the unselected optional dependency.
C5_UnselectedNeverFetched ==
    (ScenarioD /\ cmd.status = "ok") =>
        /\ Len(components) = 3
        /\ InstalledIds = {IdFrom(cmd.id)}
              \cup { IdFrom(d) : d \in log.invocations[1].required }
              \cup { IdFrom(d) : d \in log.invocations[1].selected }
        /\ \A u \in Unselected :
              \A i \in 1..Len(log.events) :
                  log.events[i].op \in {"fetch_versions", "fetch_project"} =>
                      /\ log.events[i].id # u
                      /\ log.events[i].id \in DOMAIN world.registry.projects =>
                            world.registry.projects[log.events[i].id] # u

\* C5, amended: in Scenario D a successful add installs the root, the
\* required dependency and the chosen optional one and nothing else; the
\* versions of the unselected optional dependency are never fetched and it is
\* not installed (its project is looked up once, for its display name).
C5_UnselectedVersionsNeverFetched ==
    ScenarioD =>
        /\ \A u \in Unselected :
              /\ \A i \in 1..Len(FetchedIds) : FetchedIds[i] # u
              /\ IdFrom(u) \notin InstalledIds
              /\ Len(SelectSeq(log.events,
                       LAMBDA e : /\ e.op = "fetch_project"
                                  /\ e.id \in DOMAIN world.registry.projects
                                  /\ world.registry.projects[e.id] = u)) = 1
        /\ cmd.status = "ok" =>
              /\ Len(components) = 3
              /\ InstalledIds = {IdFrom(cmd.id)}
                    \cup { IdFrom(d) : d \in log.invocations[1].required }
                    \cup { IdFrom(d) : d \in log.invocations[1].selected }

\* Scenario D has ended in success with gamma chosen and delta not.
C5_Witness ==
    /\ ScenarioD
    /\ cmd.status = "ok"
    /\ log.invocations[1].selected = {gamma}
    /\ Unselected = {delta}
    /\ InstalledIds = {alpha, beta, gamma}

\* C6: when an add returns success and no dependency name lookup failed, the
\* root and every required dependency of every version selected in the
\* invocation tree are installed.
C6_RequiredClosure ==
    (cmd.kind = "add" /\ cmd.status = "ok" /\ ~log.lookup_failed) =>
        /\ IdFrom(cmd.id) \in InstalledIds
        /\ \A k \in 1..Len(log.invocations) :
              \A d \in log.invocations[k].required : IdFrom(d) \in InstalledIds

\* Scenario A has ended in success: alpha was asked for, and beta, which it
\* requires, is installed with it.
C6_Witness ==
    /\ cmd.kind = "add"
    /\ cmd.status = "ok"
    /\ ~log.lookup_failed
    /\ world.registry = RegistryChain
    /\ cmd.id = alpha
    /\ log.invocations # <<>>
    /\ log.invocations[1].required = {beta}
    /\ InstalledIds = {alpha, beta}

\* C7: no two installed components have the same Id.
C7_IdsAreUnique ==
    pack.exists =>
        \A i, j \in 1..Len(components) :
            i # j => components[i].id # components[j].id

\* C8: an instance's allowed foreign loaders never contain its own loader.
C8_OwnLoaderNotForeign ==
    pack.exists =>
        pack.instance.loader \notin pack.instance.allowed_foreign_loaders

\* C9: when no fetched version of the requested id passes the filter, the
\* add fails with the no-compatible-version report, which names the
\* instance's loader and its allowed foreign loaders; the failing call saves
\* nothing and resolves no dependency.  No call goes past the fetch without
\* a compatible version.
C9_NoCompatibleVersion ==
    /\ (cmd.kind = "add" /\ cmd.status = "err"
          /\ cmd.error.kind = "NoCompatibleVersion") =>
           /\ cmd.error.loaders = {pack.instance.loader}
                 \cup pack.instance.allowed_foreign_loaders
           /\ log.events[Len(log.events)]
                 = Event("fetch_versions", cmd.error.id, "None", 0)
           /\ \A i \in 1..Len(fetch_versions(cmd.error.id)) :
                 ~is_compatible(fetch_versions(cmd.error.id)[i], pack.instance)
           /\ IdFrom(cmd.error.id) \notin InstalledIds
           /\ \A k \in 1..Len(log.invocations) :
                 log.invocations[k].id # cmd.error.id
    /\ \A n \in 1..Len(stack) :
           stack[n].pc \notin {"enter", "fetch"} =>
               /\ stack[n].versions # <<>>
               /\ \A i \in 1..Len(stack[n].versions) :
                     is_compatible(stack[n].versions[i], pack.instance)

\* Scenario B: alpha has a Fabric version only, the instance allows no
\* foreign loader, and the report names Forge alone.
C9_Witness ==
    /\ cmd.kind = "add"
    /\ cmd.status = "err"
    /\ cmd.error = [kind |-> "NoCompatibleVersion", id |-> alpha,
                    loaders |-> {"Forge"}]
    /\ cmd.id = alpha
    /\ files = {}

\* C10: when an add of an id that was interrupted or failed after the root
\* was saved is run again, nothing already saved is fetched again, and once
\* the second run returns success the root's required dependencies are
\* installed.
C10_RerunRecovers ==
    (/\ cmd.kind = "add"
     /\ prev.kind = "add"
     /\ prev.id = cmd.id
     /\ prev.status \in {"interrupted", "err", "panic"}
     /\ prev.root_saved) =>
        /\ \A i \in 1..Len(FetchedIds) :
              IdFrom(FetchedIds[i]) \notin ComponentIds(cmd.before)
        /\ cmd.status = "ok" =>
              \A d \in prev.root_required : IdFrom(d) \in InstalledIds

\* C11: converting a Minecraft version string to a MinecraftVersion and
\* rendering it gives the string back, and rendering a MinecraftVersion and
\* converting the string gives the value back.
C11_VersionRoundTrip ==
    conv.done =>
        /\ conv.kind = "version-from" => conv.back_text = conv.text
        /\ conv.kind = "version-to" => conv.back_value = conv.value

\* C12: rendering a Snapshot and parsing the string gives Ok of the same
\* snapshot, and every string Snapshot::from_str accepts is the rendering
\* of what it was parsed to.
C12_SnapshotRoundTrip ==
    conv.done =>
        /\ conv.kind = "snapshot-to" =>
              (conv.ok /\ conv.back_value = conv.value)
        /\ (conv.kind = "snapshot-from" /\ conv.ok) =>
              conv.back_text = conv.text

GcEvents ==
    SelectSeq(server.events, LAMBDA e : e.op = "gc")

\* C14: in StartStop{min_depth} mode, for every number n of backups, gc
\* completes normally and leaves min(n, min_depth) backups, those with the
\* highest sequence numbers; it deletes only when n exceeds min_depth, and
\* then the n - min_depth oldest.
C14_GcKeepsNewest ==
    (pack.exists /\ pack.settings.backup_mode.kind = "StartStop") =>
        \A i \in 1..Len(GcEvents) :
            LET e == GcEvents[i]
                n == Cardinality(e.remaining \cup e.removed)
                min_depth == pack.settings.backup_mode.min_depth
            IN  /\ e.outcome = "ok"
                /\ Cardinality(e.remaining)
                      = IF n < min_depth THEN n ELSE min_depth
                /\ \A kept \in e.remaining, gone \in e.removed : gone < kept
                /\ e.removed # {} => n > min_depth
                /\ n > min_depth => Cardinality(e.removed) = n - min_depth
                /\ { b.seq_number : b \in server.backups } = e.remaining

\* C15: in Manual backup mode neither start nor stop creates or removes a
\* backup directory.
C15_ManualNoAutomaticBackup ==
    (/\ pack.exists
     /\ pack.settings.backup_mode.kind = "Manual"
     /\ server.command \in {"start", "stop"}) =>
        /\ server.backups = server.before
        /\ \A i \in 1..Len(server.events) :
              /\ server.events[i].op = "create_new" =>
                    server.events[i].outcome # "ok"
              /\ server.events[i].removed = {}

\* C16: in StartStop mode, start creates its backup before docker compose up
\* is run, and stop creates its backup only after docker compose down has
\* completed.
C16_BackupAroundServer ==
    (pack.exists /\ pack.settings.backup_mode.kind = "StartStop") =>
        /\ server.command = "start" =>
              \A i \in 1..Len(server.events) :
                  server.events[i].op = "compose_up" =>
                      \E j \in 1..(i - 1) :
                          /\ server.events[j].op = "create_new"
                          /\ server.events[j].outcome = "ok"
        /\ server.command = "stop" =>
              \A j \in 1..Len(server.events) :
                  (/\ server.events[j].op = "create_new"
                   /\ server.events[j].outcome = "ok") =>
                      \E i \in 1..(j - 1) :
                          /\ server.events[i].op = "compose_down"
                          /\ server.events[i].outcome = "ok"


\* The indices of the calls an invocation made, in the order it made them.
CallsOf(serial) ==
    SelectSeq([i \in 1..Len(log.events) |-> i],
              LAMBDA i : /\ log.events[i].op = "call"
                         /\ log.events[i].parent = serial)

\* C17: persist before recurse, depth first.  An invocation makes a recursive
\* call only after it has saved its own component, so a dependency's
\* versions are fetched only after the component that depends on it is
\* saved; the calls of one invocation follow its pending list in order; and
\* between two calls of one invocation everything that happens belongs to
\* invocations that started after the first call and have returned before
\* the second.
C17_PersistBeforeRecurse ==
    LET E == log.events
        Saved(serial, before) ==
            \E j \in 1..(before - 1) :
                E[j].op = "save" /\ E[j].parent = serial
    IN  /\ \A i \in 1..Len(E) :
              E[i].op = "call" => Saved(E[i].parent, i)
        /\ \A i \in 2..Len(E) :
              E[i].op = "fetch_versions" =>
                  /\ E[i - 1].op = "call"
                  /\ E[i - 1].id = E[i].id
                  /\ Saved(E[i - 1].parent, i)
        /\ \A k \in 1..Len(log.invocations) :
              LET calls == CallsOf(k)
                  pending == log.invocations[k].pending
              IN  /\ Len(calls) <= Len(pending)
                  /\ \A n \in 1..Len(calls) : E[calls[n]].id = pending[n]
                  /\ log.invocations[k].done => Len(calls) = Len(pending)
                  /\ \A n \in 1..(Len(calls) - 1) :
                        \A m \in (calls[n] + 1)..(calls[n + 1] - 1) :
                            /\ E[m].op = "call" =>
                                  \E q \in (calls[n] + 1)..(m - 1) :
                                      /\ E[q].op = "save"
                                      /\ E[q].parent = E[m].parent
                            /\ E[m].op = "save" =>
                                  /\ E[m].parent > k
                                  /\ log.invocations[E[m].parent].done

\* The diamond resolved to the end: the root made its three calls, the
\* first one's subtree (a save and a call of its own) lies between the
\* first and the second, and the second one fetched versions.
C17_Witness ==
    /\ cmd.status = "ok"
    /\ log.invocations # <<>>
    /\ Len(log.invocations[1].pending) = 3
    /\ LET calls == CallsOf(1)
       IN  /\ Len(calls) = 3
           /\ \E m \in (calls[1] + 1)..(calls[2] - 1) :
                 log.events[m].op = "call"
           /\ \E m \in (calls[1] + 1)..(calls[2] - 1) :
                 log.events[m].op = "save"
           /\ log.events[calls[2] + 1].op = "fetch_versions"

\* C18: the first failure is fatal.  When a fetch of versions fails, or no
\* version is compatible, for the root or for a dependency at any depth,
\* every call has returned and the command has that error; the failing
\* fetch was made once and is the last thing the command did, so nothing
\* is fetched or saved after it; what is installed is what was installed
\* before the command and what it saved before the failure.
C18_FirstFailureIsFatal ==
    (cmd.kind = "add" /\ cmd.status = "err"
       /\ cmd.error.kind \in {"Registry", "NoCompatibleVersion"}) =>
        LET E == log.events
        IN  /\ stack = <<>>
            /\ E # <<>>
            /\ E[Len(E)].op = "fetch_versions"
            /\ E[Len(E)].id = cmd.error.id
            /\ Cardinality({ i \in 1..Len(E) :
                               /\ E[i].op = "fetch_versions"
                               /\ E[i].id = cmd.error.id }) = 1
            /\ log.invocations # <<>> => ~log.invocations[1].done
            /\ ComponentIds(components) =
                   ComponentIds(cmd.before)
                     \cup { E[i].id : i \in { j \in 1..Len(E) : E[j].op = "save" } }

\* A dependency of a dependency fails while a dependency of the root is
\* still pending: the root and the first dependency are saved, the other
\* one is never called.
C18_Witness ==
    /\ cmd.kind = "add" /\ cmd.status = "err"
    /\ cmd.error.kind \in {"Registry", "NoCompatibleVersion"}
    /\ Len(log.invocations) >= 2
    /\ Len(CallsOf(1)) < Len(log.invocations[1].pending)
    /\ Len(CallsOf(2)) = 1
    /\ log.events[Len(log.events)].id # IdFrom(cmd.id)

\* The slugs of the dependencies of this type an invocation's selected
\* version declares, the ones whose lookup failed left out.
DeclaredAndFound(invocation, dependency_type) ==
    { world.registry.projects[invocation.declared[i].project_id] :
        i \in { j \in 1..Len(invocation.declared) :
                  /\ j \notin invocation.failed
                  /\ invocation.declared[j].dependency_type = dependency_type } }

\* C19: a failed lookup of a dependency's name is recovered locally.  Every
\* invocation goes on past its lookups; its required and its offered
\* optional dependencies are the declared ones whose lookup succeeded and
\* no other, so only the failed ones are dropped; it calls itself for none
\* but these; and when the command ends well the root and every required
\* dependency whose lookup succeeded are installed.
C19_LookupFailureIsLocal ==
    \A k \in 1..Len(log.invocations) :
        LET invocation == log.invocations[k]
            calls == CallsOf(k)
        IN  /\ invocation.required = DeclaredAndFound(invocation, "Required")
            /\ invocation.offered = DeclaredAndFound(invocation, "Optional")
            /\ \A n \in 1..Len(calls) :
                  log.events[calls[n]].id
                    \in DeclaredAndFound(invocation, "Required")
                           \cup DeclaredAndFound(invocation, "Optional")
            /\ cmd.status = "ok" =>
                  /\ IdFrom(invocation.id) \in ComponentIds(components)
                  /\ \A id \in DeclaredAndFound(invocation, "Required") :
                        IdFrom(id) \in ComponentIds(components)

\* The root declares two dependencies; the lookup of one fails, the other
\* one is called and installed, and the command ends well.
C19_Witness ==
    /\ cmd.kind = "add" /\ cmd.status = "ok"
    /\ log.invocations # <<>>
    /\ Len(log.invocations[1].declared) >= 2
    /\ log.invocations[1].failed # {}
    /\ Len(CallsOf(1)) >= 1
    /\ Len(EventsOf("save")) >= 2

\* The loader the compatibility table pairs with this one, if any.
PairedLoader(loader) ==
    CASE loader = "Forge" -> {"Neoforge"}
      [] loader = "Neoforge" -> {"Forge"}
      [] loader = "Fabric" -> {"Quilt"}
      [] loader = "Quilt" -> {"Fabric"}
      [] OTHER -> {}

\* C20: whichever way a pack's instance was created, its allowed foreign
\* loaders hold the loader the table pairs with its own (Neoforge for
\* Forge, Forge for Neoforge, Quilt for Fabric, Fabric for Quilt), and are
\* the set Instance::new seeds for that loader.
C20_SeedingFollowsTable ==
    pack.exists =>
        LET instance == pack.instance
        IN  /\ PairedLoader(instance.loader)
                  \subseteq instance.allowed_foreign_loaders
            /\ instance.allowed_foreign_loaders =
                  InstanceNew(instance.minecraft_version, instance.loader,
                              instance.loader_version).allowed_foreign_loaders

\* Whether an invocation has gone past the construction of its component:
\* no call on the stack stands before it, and the process was not killed.
PastConstruction(serial) ==
    /\ cmd.status # "interrupted"
    /\ \A n \in 1..Len(stack) :
          ~(stack[n].serial = serial /\ stack[n].pc = "save")

\* C21: the component saved for a requested id whose selected version has a
\* file names that version and its first file; its category is the forced
\* category when one is given, whatever project types the version declares,
\* and one of the version's project types otherwise; its environment is the
\* version's when it declares one, and otherwise client-only for a resource
\* pack or a shader and client-and-server for the other categories.
C21_ComponentConstruction ==
    \A k \in 1..Len(log.invocations) :
        LET invocation == log.invocations[k]
            version == invocation.selected_version
        IN  (PastConstruction(k) /\ version.files # <<>>) =>
                \E i \in 1..Len(components) :
                    LET component == components[i]
                    IN  /\ component.id = IdFrom(invocation.id)
                        /\ component.source.kind = "Remote"
                        /\ component.source.version_id = version.id
                        /\ component.source.file_name = Head(version.files)
                        /\ IF invocation.forced_category # "None"
                           THEN component.category = invocation.forced_category
                           ELSE component.category \in version.project_types
                        /\ component.environment =
                             IF version.environment # "None"
                             THEN EnvFrom(version.environment)
                             ELSE IF component.category
                                       \in {"Resourcepack", "Shader"}
                                  THEN EnvFrom("ClientOnly")
                                  ELSE EnvFrom("ClientAndServer")

\* C22: when the selected version of a requested id has no file, the add
\* ends with an error returned to the command, and no component is saved
\* for that id.
C22_MissingFileIsAnError ==
    \A k \in 1..Len(log.invocations) :
        LET invocation == log.invocations[k]
        IN  (PastConstruction(k) /\ invocation.selected_version.files = <<>>) =>
                /\ cmd.status = "err"
                /\ cmd.error.id = invocation.id
                /\ IdFrom(invocation.id) \notin ComponentIds(components)

\* The versions of this id that pass the filter of the pack's instance.
Candidates(id) ==
    IF KnownProject(id)
    THEN SelectSeq(fetch_versions(id),
                   LAMBDA version : is_compatible(version, pack.instance))
    ELSE <<>>

\* C23: the version prompt lists exactly the versions that pass the filter,
\* newest first, and is shown only when there are two of them or more: a
\* command is never ended by the version prompt of an id with one
\* candidate.
C23_PromptOnlyForSeveral ==
    /\ \A n \in 1..Len(stack) :
          stack[n].pc = "select" =>
              stack[n].versions \in SortedNewestFirst(Candidates(stack[n].id))
    /\ (/\ cmd.kind = "add" /\ cmd.status = "err"
        /\ cmd.error.kind = "Prompt"
        /\ log.events # <<>>
        /\ log.events[Len(log.events)].op = "fetch_versions") =>
            Len(Candidates(cmd.error.id)) >= 2

\* The components of a sequence whose Id is, or is not, the given one.
WithId(cs, id, same) ==
    SelectSeq(cs, LAMBDA c : (c.id = id) = same)

C25_ShuffledStillUsable ==
    /\ \A f \in files :
          \E i \in 1..Len(components) : components[i] = f.component
    /\ (cmd.kind = "remove"
          /\ WithId(cmd.before, IdFrom(cmd.id), TRUE) # <<>>) =>
            /\ cmd.status = "ok"
            /\ WithId(components, IdFrom(cmd.id), TRUE) = <<>>

\* C26: nothing guards overlapping invocations.  A process that adds or
\* removes a local component writes the manifest it read when it opened the
\* repository with its own change applied, and the manifest on disk is the
\* one the last writer wrote: what another process wrote in between is not
\* in it.
C26_ManifestRewrittenFromOwnCopy ==
    \A p \in Procs :
        LET proc == race.procs[p]
        IN  (proc.pc = "done" /\ proc.result = "Ok") =>
                /\ proc.copy.local_components =
                      IF proc.op = "add"
                      THEN Append(proc.read.local_components,
                                  [path |-> proc.path,
                                   category |-> CategoryFrom(proc.path.dir)])
                      ELSE SelectSeq(proc.read.local_components,
                                     LAMBDA e : EntryId(e) # IdFrom(proc.id))
                /\ race.last_writer = p => pack = proc.copy

\* Both processes ran one command, each added a file of its own and
\* returned success, and the manifest holds the entry of one of them only.
C26_Witness ==
    \E p, q \in Procs :
        /\ p # q
        /\ \A r \in {p, q} :
              /\ race.procs[r].pc = "done"
              /\ race.procs[r].count = 1
              /\ race.procs[r].op = "add"
              /\ race.procs[r].result = "Ok"
        /\ race.procs[p].path # race.procs[q].path
        /\ Len(pack.local_components) = 1
        /\ pack.local_components[1].path = race.procs[q].path

\* C27: adding and removing components, remote or local, leaves the pack's
\* name, version, instance and settings as they were when the pack was set
\* up; of the manifest only the list of local components changes.
C27_ManifestFrame ==
    [pack EXCEPT !.local_components = <<>>] = NewPack("pack", world.instance)

\* A remote add, a local add and a removal have all succeeded, and a
\* remote component is still installed.
C27_Witness ==
    /\ cmd.kind = "remove" /\ cmd.status = "ok"
    /\ prev.kind = "add-local" /\ prev.status = "ok"
    /\ files # {}
    /\ Len(cmd.before) > Len(components)

\* The events of the current command with this operation for this Id.
EventsFor(op, id) ==
    SelectSeq(log.events, LAMBDA e : e.op = op /\ IdFrom(e.id) = id)

\* C28: an add ends, whatever cycles the registry's dependencies make, and
\* during one add the versions of a project are fetched at most once and a
\* component is saved for it at most once.
C28_TerminatesOnCycles ==
    /\ [](\A i \in 1..Len(log.events) :
            LET id == IdFrom(log.events[i].id)
            IN  /\ Len(EventsFor("fetch_versions", id)) <= 1
                /\ Len(EventsFor("save", id)) <= 1)
    /\ (cmd.status = "running") ~> (cmd.status # "running")

\* The add of alpha in the registry with cycles has ended well: alpha, beta
\* and gamma are saved, the call alpha made for itself found it installed,
\* and gamma, which requires alpha and beta, had nothing pending.
C28_Witness ==
    /\ world.registry = RegistryCycle
    /\ cmd.kind = "add" /\ cmd.status = "ok" /\ cmd.id = alpha
    /\ Len(EventsOf("save")) = 3
    /\ Len(EventsFor("installed", alpha)) = 1
    /\ log.invocations[3].id = gamma
    /\ log.invocations[3].installed = {alpha, beta}
    /\ log.invocations[3].pending = <<>>

\* C29: whatever sub-directories the backup directory holds, create_new
\* does not overflow, and the sequence number it gives the new backup is
\* one more than the greatest there is (1 when there is none): greater than
\* every sequence number read off the existing names, and shared with none.
C29_SeqNumbersIncrease ==
    backup_dir.last.op = "create_new" =>
        LET last == backup_dir.last
        IN  /\ last.outcome # "panic"
            /\ \A n \in last.existing : last.seq_number > n
            /\ last.existing = {} => last.seq_number = 1

\* C30: what save_component saved is listed.  For every component the
\* current command saved, remote or local, components() holds a component
\* of the same Id, the same category and the same kind of source.
C30_SavedIsListed ==
    \A n \in 1..Len(log.events) :
        LET e == log.events[n]
        IN  e.op \in {"save", "save_local"} =>
                \E i \in 1..Len(components) :
                    /\ components[i].id = e.id
                    /\ components[i].category = e.category
                    /\ components[i].source.kind =
                          IF e.op = "save" THEN "Remote" ELSE "Local"
====
